---- MODULE Spec2Model ----
(***************************************************************************)
(* Model of the Anima RAG pipelines (PessoasCulturaESG2.py, weduka2.py).   *)
(*                                                                         *)
(* Python values are modelled as tagged records [t |-> type, v |-> value]. *)
(* A Python str is a sequence of one-character strings, so that strip,     *)
(* split, lower, sorted and len act on characters as they do in Python.    *)
(* Dict keys are TLA+ strings; a dict is a function from its keys.         *)
(* An expression that raises evaluates to Raise(<class>, <message>).       *)
(***************************************************************************)
EXTENDS Integers, Sequences, FiniteSets, TLC

\* ------------------------------------------------------------------------
\* Python values
\* ------------------------------------------------------------------------

PyNone == [t |-> "None", v |-> 0]

PyStr(s) == [t |-> "str", v |-> s]

PyInt(n) == [t |-> "int", v |-> n]

PyList(q) == [t |-> "list", v |-> q]

PyDict(f) == [t |-> "dict", v |-> f]

\* An exception of class cls whose str() is msg.
Raise(cls, msg) == [t |-> "raise", v |-> cls, msg |-> msg]

\* `name = value` followed by the statements that use name: value is
\* computed once and Then is what follows the assignment.
With(value, Then(_)) == Then(value)

\* The empty dict {} : a function with no key.
EmptyDict == PyDict([k \in {} |-> PyNone])

\* isinstance(x, str | list | dict)
isinstance(x, type) == x.t = type

\* Python truth value of x (`if x:` / `not x`).
Truthy(x) ==
    CASE x.t = "None" -> FALSE
      [] x.t = "str"  -> x.v # <<>>
      [] x.t = "int"  -> x.v # 0
      [] x.t = "list" -> x.v # <<>>
      [] x.t = "dict" -> DOMAIN x.v # {}
      [] OTHER        -> TRUE

\* type(x).__name__
TypeName(x) ==
    CASE x.t = "None" -> <<"N","o","n","e","T","y","p","e">>
      [] x.t = "str"  -> <<"s","t","r">>
      [] x.t = "int"  -> <<"i","n","t">>
      [] x.t = "list" -> <<"l","i","s","t">>
      [] x.t = "dict" -> <<"d","i","c","t">>

\* The AttributeError of x.<attr> on a value that has no such attribute.
NoAttribute(x, attr) ==
    Raise("AttributeError",
          <<"'">> \o TypeName(x) \o <<"'"," ","o","b","j","e","c","t"," ","h","a","s"," ","n","o"," ","a","t","t","r","i","b","u","t","e"," ","'">>
          \o attr \o <<"'">>)

\* d.get(key, default) for a dict d; on any other type the attribute lookup
\* fails with AttributeError.
get(d, key, default) ==
    IF d.t # "dict" THEN NoAttribute(d, <<"g","e","t">>)
    ELSE IF key \in DOMAIN d.v THEN d.v[key] ELSE default

\* ------------------------------------------------------------------------
\* Python str operations, on sequences of characters
\* ------------------------------------------------------------------------

\* Characters str.strip() removes (those of the model's alphabet).
WhiteSpace == {" ", "\n", "\t"}

LowerLetters == <<"a","b","c","d","e","f","g","h","i","j","k","l","m",
                  "n","o","p","q","r","s","t","u","v","w","x","y","z">>

UpperLetters == <<"A","B","C","D","E","F","G","H","I","J","K","L","M",
                  "N","O","P","Q","R","S","T","U","V","W","X","Y","Z">>

\* The accented letters of the alphabet, each lower-case letter at the
\* position of its upper-case form.
AccentedLower == <<"á","ã","ç","é","ê","í","ó","õ">>

AccentedUpper == <<"Á","Ã","Ç","É","Ê","Í","Ó","Õ">>

Digits == <<"0","1","2","3","4","5","6","7","8","9">>

\* Position of c in q, 0 when absent.
IndexIn(q, c) ==
    LET I == {i \in 1..Len(q) : q[i] = c}
    IN  IF I = {} THEN 0 ELSE CHOOSE i \in I : \A j \in I : i <= j

\* ord(c): the Unicode code point, which is what str comparison uses.
ord(c) ==
    CASE IndexIn(LowerLetters, c) # 0 -> 96 + IndexIn(LowerLetters, c)
      [] IndexIn(UpperLetters, c) # 0 -> 64 + IndexIn(UpperLetters, c)
      [] IndexIn(Digits, c) # 0       -> 47 + IndexIn(Digits, c)
      [] c = "\t" -> 9
      [] c = "\n" -> 10
      [] c = " "  -> 32
      [] c = "'"  -> 39
      [] c = "("  -> 40
      [] c = ")"  -> 41
      [] c = "*"  -> 42
      [] c = ","  -> 44
      [] c = "-"  -> 45
      [] c = "."  -> 46
      [] c = "/"  -> 47
      [] c = ":"  -> 58
      [] c = "?"  -> 63
      [] c = "_"  -> 95
      [] c = "{"  -> 123
      [] c = "}"  -> 125
      [] c = "ã"  -> 227
      [] c = "ç"  -> 231
      [] c = "é"  -> 233
      [] c = "í"  -> 237
      [] c = "õ"  -> 245
      [] c = "á"  -> 225
      [] c = "ó"  -> 243
      [] c = "ê"  -> 234
      [] c = "Á"  -> 193
      [] c = "Ã"  -> 195
      [] c = "Ç"  -> 199
      [] c = "É"  -> 201
      [] c = "Ê"  -> 202
      [] c = "Í"  -> 205
      [] c = "Ó"  -> 211
      [] c = "Õ"  -> 213

\* c.lower() and c.upper() for one character: every cased letter of the
\* alphabet has a one-character form in the other case, which is also its
\* title-case form; any other character is returned as it is.
lowerChar(c) ==
    IF IndexIn(UpperLetters, c) # 0 THEN LowerLetters[IndexIn(UpperLetters, c)]
    ELSE IF IndexIn(AccentedUpper, c) # 0 THEN AccentedLower[IndexIn(AccentedUpper, c)]
    ELSE c

upperChar(c) ==
    IF IndexIn(LowerLetters, c) # 0 THEN UpperLetters[IndexIn(LowerLetters, c)]
    ELSE IF IndexIn(AccentedLower, c) # 0 THEN AccentedUpper[IndexIn(AccentedLower, c)]
    ELSE c

\* s.lower()
lower(s) == [i \in 1..Len(s) |-> lowerChar(s[i])]

\* s.capitalize(): first character upper-cased, the rest lower-cased.
capitalize(s) == [i \in 1..Len(s) |-> IF i = 1 THEN upperChar(s[i]) ELSE lowerChar(s[i])]

RECURSIVE lstrip(_)
\* s.lstrip()
lstrip(s) == IF s # <<>> /\ Head(s) \in WhiteSpace THEN lstrip(Tail(s)) ELSE s

RECURSIVE rstrip(_)
\* s.rstrip()
rstrip(s) ==
    IF s # <<>> /\ s[Len(s)] \in WhiteSpace THEN rstrip(SubSeq(s, 1, Len(s) - 1)) ELSE s

\* s.strip()
strip(s) == rstrip(lstrip(s))

\* s.find(sub) + 1: the 1-based position of the first occurrence, 0 when absent.
find(s, sub) ==
    LET I == {i \in 1..(Len(s) - Len(sub) + 1) : SubSeq(s, i, i + Len(sub) - 1) = sub}
    IN  IF I = {} THEN 0 ELSE CHOOSE i \in I : \A j \in I : i <= j

\* s.rfind(sub) + 1: the 1-based position of the last occurrence, 0 when absent.
rfind(s, sub) ==
    LET I == {i \in 1..(Len(s) - Len(sub) + 1) : SubSeq(s, i, i + Len(sub) - 1) = sub}
    IN  IF I = {} THEN 0 ELSE CHOOSE i \in I : \A j \in I : i >= j

\* `sub in s`
contains(s, sub) == find(s, sub) # 0

\* s.split(sep, 1)[0]: the text before the first occurrence of sep.
split_first(s, sep) == IF find(s, sep) = 0 THEN s ELSE SubSeq(s, 1, find(s, sep) - 1)

\* s.split('/')[-1]: the text after the last '/'.
split_last(s, sep) ==
    IF rfind(s, sep) = 0 THEN s ELSE SubSeq(s, rfind(s, sep) + Len(sep), Len(s))

\* os.path.splitext(p)[1] for a name without '/': the text from the last dot,
\* unless every character before that dot is itself a dot (then '').
splitext(p) ==
    LET dot == rfind(p, <<".">>)
    IN  IF dot # 0 /\ \E i \in 1..(dot - 1) : p[i] # "."
        THEN SubSeq(p, dot, Len(p))
        ELSE <<>>

RECURSIVE join(_, _)
\* sep.join(parts), parts a sequence of str
join(sep, parts) ==
    IF parts = <<>> THEN <<>>
    ELSE IF Len(parts) = 1 THEN parts[1]
    ELSE parts[1] \o sep \o join(sep, Tail(parts))

RECURSIVE str_int(_)
\* str(n) for an int n >= 0
str_int(n) == IF n < 10 THEN <<Digits[n + 1]>> ELSE str_int(n \div 10) \o <<Digits[(n % 10) + 1]>>

RECURSIVE StrLess(_, _)
\* a < b for two str: by code point, a proper prefix first.
StrLess(a, b) ==
    IF b = <<>> THEN FALSE
    ELSE IF a = <<>> THEN TRUE
    ELSE IF Head(a) = Head(b) THEN StrLess(Tail(a), Tail(b))
    ELSE ord(Head(a)) < ord(Head(b))

RECURSIVE InsertSorted(_, _)
\* q is sorted; x goes after every element that is not greater than it.
InsertSorted(q, x) ==
    IF q = <<>> THEN <<x>>
    ELSE IF StrLess(x, Head(q)) THEN <<x>> \o q
    ELSE <<Head(q)>> \o InsertSorted(Tail(q), x)

RECURSIVE sorted(_)
\* sorted(names): ascending, stable.
sorted(names) ==
    IF names = <<>> THEN <<>>
    ELSE InsertSorted(sorted(SubSeq(names, 1, Len(names) - 1)), names[Len(names)])

\* ------------------------------------------------------------------------
\* Citation Formatter (PessoasCulturaESG2.py)
\* ------------------------------------------------------------------------

\* self.not_found_indicator
not_found_indicator == 
    <<"N","ã","o"," ","e","n","c","o","n","t","r","e","i"," ","a"," ","i",
      "n","f","o","r","m","a","ç","ã","o"," ","s","o","b","r","e"," ","i",
      "s","s","o"," ","n","a"," ","b","a","s","e"," ","d","e"," ","c","o",
      "n","h","e","c","i","m","e","n","t","o">>

\* self.allowed_citation_extensions
allowed_citation_extensions ==
    { <<".","t","x","t">>, <<".","p","d","f">>, <<".","d","o","c">>,
      <<".","d","o","c","x">>, <<".","p","p","t">>, <<".","p","p","t","x">>,
      <<".","x","l","s","x">>, <<".","x","l","s">>, <<".","c","s","v">>,
      <<".","j","s","o","n">>, <<".","j","p","e","g">>, <<".","j","p","g">>,
      <<".","p","n","g">>, <<".","m","d">> }

\* self.max_citation_filename_length
max_citation_filename_length == 50

\* The header every rendered block starts with.
FontesHeader == 
    <<"\n","\n","*","*","F","o","n","t","e","s",":","*","*","\n">>

\* A (source_identifier, display_source) pair extracted from one record.
Source(id, display) == [t |-> "source", v |-> <<id, display>>]

\* One entry of retrievedReferences: its s3 uri when it is a non-empty str,
\* PyNone when the entry yields none. location.get("s3Location", {}).get("uri")
\* raises AttributeError when s3Location is present and not a dict.
RefUri(ref) ==
    IF ~isinstance(ref, "dict") THEN PyNone
    ELSE With(get(ref, "location", EmptyDict), LAMBDA location :
         IF ~isinstance(location, "dict") THEN PyNone
         ELSE With(get(get(location, "s3Location", EmptyDict), "uri", PyNone),
                   LAMBDA s3_uri :
              IF s3_uri.t = "raise" THEN s3_uri
              ELSE IF Truthy(s3_uri) /\ isinstance(s3_uri, "str") THEN s3_uri
              ELSE PyNone))

RECURSIVE FirstUri(_)
\* The loop over references: the first entry that yields a uri ends it (break).
FirstUri(references) ==
    IF references = <<>> THEN PyNone
    ELSE With(RefUri(Head(references)), LAMBDA s3_uri :
         IF s3_uri.t \in {"str", "raise"} THEN s3_uri ELSE FirstUri(Tail(references)))

\* source_identifier and display_source of one citation record; PyNone when the
\* record yields none.
SourceOf(citation) ==
    IF isinstance(citation, "dict")
    THEN With(get(citation, "retrievedReferences", PyList(<<>>)), LAMBDA references :
         IF isinstance(references, "list")
         THEN With(FirstUri(references.v), LAMBDA s3_uri :
              CASE s3_uri.t = "raise" -> s3_uri
                [] s3_uri.t = "str"   -> Source(s3_uri.v, split_last(s3_uri.v, <<"/">>))
                [] OTHER              -> PyNone)
         ELSE PyNone)
    ELSE IF isinstance(citation, "str") /\ Truthy(citation)
    THEN Source(citation.v,
                IF contains(citation.v, <<"/">>) THEN split_last(citation.v, <<"/">>)
                ELSE citation.v)
    ELSE PyNone

\* The filters with the length test written `<` : a name of exactly the
\* maximum length is rejected.
PassesFilters_StrictlyShorter(display_source) ==
    /\ Len(display_source) < max_citation_filename_length
    /\ lower(splitext(display_source)) \in allowed_citation_extensions

\* The length test and the extension test on a display name.
PassesFilters(display_source) ==
    /\ Len(display_source) <= max_citation_filename_length
    /\ lower(splitext(display_source)) \in allowed_citation_extensions

\* The condition without the membership test: a repeated identifier is kept
\* again.
AcceptsSource_NoDedup(source_identifier, display_source, unique_source_identifiers) ==
    /\ display_source # <<>>
    /\ source_identifier # <<>>
    /\ PassesFilters(display_source)

\* The condition with the membership test made on display names: an
\* identifier whose basename is already listed is rejected.
AcceptsSource_UniqueNames(source_identifier, display_source, unique_source_identifiers) ==
    /\ display_source # <<>>
    /\ source_identifier # <<>>
    /\ display_source \notin {split_last(s, <<"/">>) : s \in unique_source_identifiers}
    /\ PassesFilters(display_source)

\* The condition under which a record's pair is kept.
AcceptsSource(source_identifier, display_source, unique_source_identifiers) ==
    /\ display_source # <<>>
    /\ source_identifier # <<>>
    /\ source_identifier \notin unique_source_identifiers
    /\ PassesFilters(display_source)

RECURSIVE CollectReferences(_, _, _)
\* The loop over citations_data: unique_source_identifiers and
\* valid_references_to_display after the last record, or the exception raised.
CollectReferences(citations, unique_source_identifiers, valid_references_to_display) ==
    IF citations = <<>>
    THEN [t |-> "collected", ids |-> unique_source_identifiers,
          valid |-> valid_references_to_display]
    ELSE With(SourceOf(Head(citations)), LAMBDA src :
         IF src.t = "raise" THEN src
         ELSE IF src.t = "source"
                 /\ AcceptsSource(src.v[1], src.v[2], unique_source_identifiers)
         THEN CollectReferences(Tail(citations),
                                unique_source_identifiers \cup {src.v[1]},
                                Append(valid_references_to_display, src.v[2]))
         ELSE CollectReferences(Tail(citations), unique_source_identifiers,
                                valid_references_to_display))

\* The kept display names numbered in the order of the records, unsorted.
NumberingOrder_InputOrder(valid_references_to_display) == valid_references_to_display

\* The order in which the kept display names are numbered.
NumberingOrder(valid_references_to_display) == sorted(valid_references_to_display)

\* formatted_lines: "<i>. <source>" for i = 1, 2, ...
FormattedLines(sources) ==
    [i \in 1..Len(sources) |-> str_int(i) \o <<".", " ">> \o sources[i]]

\* The formatter without its test for an empty result: the header is rendered
\* even when no display name was kept.
_format_citations_EmptyHeader(citations_data) ==
    IF ~Truthy(citations_data) \/ ~isinstance(citations_data, "list") THEN PyStr(<<>>)
    ELSE With(CollectReferences(citations_data.v, {}, <<>>), LAMBDA r :
         IF r.t = "raise" THEN r
         ELSE PyStr(FontesHeader
                    \o join(<<"\n">>, FormattedLines(NumberingOrder(r.valid)))))

\* Pipeline._format_citations of PessoasCulturaESG2.py
_format_citations(citations_data) ==
    IF ~Truthy(citations_data) \/ ~isinstance(citations_data, "list") THEN PyStr(<<>>)
    ELSE With(CollectReferences(citations_data.v, {}, <<>>), LAMBDA r :
         IF r.t = "raise" THEN r
         ELSE IF r.valid = <<>> THEN PyStr(<<>>)
         ELSE PyStr(FontesHeader
                    \o join(<<"\n">>, FormattedLines(NumberingOrder(r.valid)))))

\* ------------------------------------------------------------------------
\* Citation Formatter (weduka2.py)
\* ------------------------------------------------------------------------

\* What `for ref in references` iterates over: the entries of a list; None
\* and int are not iterable (TypeError); a non-empty str or dict iterates
\* str items, on which ref.get fails (AttributeError).
weduka_IterReferences(references) ==
    CASE references.t = "list" -> references
      [] references.t \in {"str", "dict"} ->
            IF Truthy(references) THEN NoAttribute(PyStr(<<>>), <<"g","e","t">>)
            ELSE PyList(<<>>)
      [] OTHER -> Raise("TypeError", <<"'">> \o TypeName(references)
                                     \o <<"'"," ","o","b","j","e","c","t"," ","i","s"," ","n","o","t"," ","i","t","e","r","a","b","l","e">>)

\* s3_uri of one entry: ref.get("location", {}).get("s3Location", {}).get("uri"),
\* each .get raising AttributeError on a receiver that is not a dict.
weduka_RefUri(ref) ==
    With(get(ref, "location", EmptyDict), LAMBDA location :
    IF location.t = "raise" THEN location
    ELSE With(get(location, "s3Location", EmptyDict), LAMBDA s3Location :
         IF s3Location.t = "raise" THEN s3Location ELSE get(s3Location, "uri", PyNone)))

\* display_source of a new identifier taken from a reference.
weduka_RefDisplay(source_identifier) ==
    IF contains(source_identifier, <<"s","3",":","/","/">>)
    THEN split_last(source_identifier, <<"/">>)
    ELSE source_identifier

\* The TypeError a truthy identifier that is no str ends in: a list or dict
\* is unhashable (`not in unique_sources`), an int fails `'s3://' in`.
weduka_BadIdentifier(source_identifier) ==
    IF source_identifier.t \in {"list", "dict"}
    THEN Raise("TypeError", <<"u","n","h","a","s","h","a","b","l","e"," ","t","y","p","e",":"," ","'">>
                            \o TypeName(source_identifier) \o <<"'">>)
    ELSE Raise("TypeError", <<"a","r","g","u","m","e","n","t"," ","o","f"," ","t","y","p","e"," ","'">>
                            \o TypeName(source_identifier)
                            \o <<"'"," ","i","s"," ","n","o","t"," ","i","t","e","r","a","b","l","e">>)

\* display_source of a new identifier that is a str record.
weduka_StrDisplay(citation) ==
    IF contains(citation, <<"/">>) THEN split_last(citation, <<"/">>) ELSE citation

\* The condition with the two tests of PessoasCulturaESG2.py added to it.
weduka_AcceptsSource_Filtered(source_identifier, display_source, unique_sources) ==
    /\ source_identifier \notin unique_sources
    /\ PassesFilters(display_source)

\* The condition under which a non-empty identifier is listed (weduka2.py):
\* it was not seen before; its display name is not looked at.
weduka_AcceptsSource(source_identifier, display_source, unique_sources) ==
    source_identifier \notin unique_sources

\* The collected display names numbered in the order they were first seen.
weduka_NumberingOrder_FirstSeen(formatted_references) == formatted_references

RECURSIVE weduka_CollectRefs(_, _, _)
\* The inner loop over one record's references. A truthy identifier that is
\* not a str fails with TypeError (unhashable, or `'s3://' in` on a non-str).
weduka_CollectRefs(references, unique_sources, formatted_references) ==
    IF references = <<>>
    THEN [t |-> "collected", ids |-> unique_sources, valid |-> formatted_references]
    ELSE With(weduka_RefUri(Head(references)), LAMBDA source_identifier :
         IF source_identifier.t = "raise" THEN source_identifier
         ELSE IF ~Truthy(source_identifier)
         THEN weduka_CollectRefs(Tail(references), unique_sources,
                                 formatted_references)
         ELSE IF ~isinstance(source_identifier, "str")
         THEN weduka_BadIdentifier(source_identifier)
         ELSE IF ~weduka_AcceptsSource(source_identifier.v,
                                       weduka_RefDisplay(source_identifier.v),
                                       unique_sources)
         THEN weduka_CollectRefs(Tail(references), unique_sources,
                                 formatted_references)
         ELSE weduka_CollectRefs(Tail(references),
                    unique_sources \cup {source_identifier.v},
                    Append(formatted_references,
                           weduka_RefDisplay(source_identifier.v))))

RECURSIVE weduka_CollectReferences(_, _, _)
\* The loop over citations_data.
weduka_CollectReferences(citations, unique_sources, formatted_references) ==
    IF citations = <<>>
    THEN [t |-> "collected", ids |-> unique_sources, valid |-> formatted_references]
    ELSE With(Head(citations), LAMBDA citation :
         IF isinstance(citation, "dict")
         THEN With(weduka_IterReferences(
                       get(citation, "retrievedReferences", PyList(<<>>))),
                   LAMBDA references :
              IF references.t = "raise" THEN references
              ELSE With(weduka_CollectRefs(references.v, unique_sources,
                                           formatted_references), LAMBDA r :
                   IF r.t = "raise" THEN r
                   ELSE weduka_CollectReferences(Tail(citations), r.ids, r.valid)))
         ELSE IF isinstance(citation, "str") /\ Truthy(citation)
                 /\ weduka_AcceptsSource(citation.v, weduka_StrDisplay(citation.v),
                                         unique_sources)
         THEN weduka_CollectReferences(Tail(citations),
                    unique_sources \cup {citation.v},
                    Append(formatted_references, weduka_StrDisplay(citation.v)))
         ELSE weduka_CollectReferences(Tail(citations), unique_sources,
                                       formatted_references))

\* The order in which the collected display names are numbered.
weduka_NumberingOrder(formatted_references) == sorted(formatted_references)

\* references_text after the loop: one "<i+1>. <source>\n" per name.
weduka_NumberedText(sources) ==
    IF sources = <<>> THEN <<>>
    ELSE join(<<>>, [i \in 1..Len(sources) |->
                        str_int(i) \o <<".", " ">> \o sources[i] \o <<"\n">>])

\* Pipeline._format_citations of weduka2.py
weduka_format_citations(citations_data) ==
    IF ~Truthy(citations_data) \/ ~isinstance(citations_data, "list") THEN PyStr(<<>>)
    ELSE With(weduka_CollectReferences(citations_data.v, {}, <<>>), LAMBDA r :
         IF r.t = "raise" THEN r
         ELSE IF r.valid = <<>> THEN PyStr(<<>>)
         ELSE PyStr(rstrip(FontesHeader
                           \o weduka_NumberedText(weduka_NumberingOrder(r.valid)))))

\* ------------------------------------------------------------------------
\* History Formatter and duplicate-turn suppression
\* ------------------------------------------------------------------------

IsRaise(x) == x.t = "raise"

\* sources_marker of _format_history_string
sources_marker == <<"\n","\n","*","*","F","o","n","t","e","s",":","*","*">>

\* A Python tuple returned by a function.
PyTuple(q) == [t |-> "tuple", v |-> q]

\* pop_system_message (the fallback both files define): the leading system
\* message is split off; messages[0].get fails on an entry that is not a dict.
pop_system_message(messages) ==
    IF messages = <<>> THEN PyTuple(<<PyNone, messages>>)
    ELSE With(get(messages[1], "role", PyNone), LAMBDA role :
         IF IsRaise(role) THEN role
         ELSE IF role = PyStr(<<"s","y","s","t","e","m">>)
         THEN PyTuple(<<messages[1], Tail(messages)>>)
         ELSE PyTuple(<<PyNone, messages>>))

\* item is a dict whose type is "text"
IsTextPart(item) ==
    isinstance(item, "dict") /\ get(item, "type", PyNone) = PyStr(<<"t","e","x","t">>)

RECURSIVE TextParts(_)
\* text_parts: item.get("text", "") of every text part, in order.
TextParts(content) ==
    IF content = <<>> THEN <<>>
    ELSE IF IsTextPart(Head(content))
    THEN <<get(Head(content), "text", PyStr(<<>>))>> \o TextParts(Tail(content))
    ELSE TextParts(Tail(content))

RECURSIVE FilterTruthy(_)
\* filter(None, text_parts)
FilterTruthy(parts) ==
    IF parts = <<>> THEN <<>>
    ELSE IF Truthy(Head(parts)) THEN <<Head(parts)>> \o FilterTruthy(Tail(parts))
    ELSE FilterTruthy(Tail(parts))

\* The TypeError of str.join on item number b (from 1) of kept.
JoinTypeError(kept, b) ==
    Raise("TypeError",
          <<"s","e","q","u","e","n","c","e"," ","i","t","e","m"," ">> \o str_int(b - 1)
          \o <<":"," ","e","x","p","e","c","t","e","d"," ","s","t","r"," ","i","n","s","t","a","n","c","e",","," ">>
          \o TypeName(kept[b]) \o <<" ","f","o","u","n","d">>)

\* "\n".join(filter(None, text_parts)): TypeError at the first kept part that
\* is no str.
JoinTextParts(text_parts) ==
    With(FilterTruthy(text_parts), LAMBDA kept :
    With({i \in 1..Len(kept) : ~isinstance(kept[i], "str")}, LAMBDA bad :
    IF bad # {}
    THEN JoinTypeError(kept, CHOOSE i \in bad : \A j \in bad : i <= j)
    ELSE PyStr(join(<<"\n">>, [i \in 1..Len(kept) |-> kept[i].v]))))

\* content_text of one turn's content: the str itself, the joined text parts
\* of a list, '' for any other type.
ContentText(content) ==
    IF isinstance(content, "str") THEN content
    ELSE IF isinstance(content, "list") THEN JoinTextParts(TextParts(content.v))
    ELSE PyStr(<<>>)

\* The loop body without the cut at the sources marker: an assistant's text
\* is kept whole, like any other turn's.
HistoryLine_KeepSources(msg) ==
    With(get(msg, "role", PyStr(<<"u","n","k","n","o","w","n">>)), LAMBDA role :
    IF IsRaise(role) THEN role
    ELSE With(ContentText(get(msg, "content", PyStr(<<>>))), LAMBDA content_text :
         IF IsRaise(content_text) THEN content_text
         ELSE IF ~Truthy(content_text) THEN PyNone
         ELSE IF ~isinstance(role, "str")
         THEN NoAttribute(role, <<"c","a","p","i","t","a","l","i","z","e">>)
         ELSE PyStr(capitalize(role.v) \o <<":", " ">> \o content_text.v)))

\* The loop body without the tests on content_text: a turn with no text is
\* given a line like any other.
HistoryLine_KeepEmpty(msg) ==
    With(get(msg, "role", PyStr(<<"u","n","k","n","o","w","n">>)), LAMBDA role :
    IF IsRaise(role) THEN role
    ELSE With(ContentText(get(msg, "content", PyStr(<<>>))), LAMBDA content_text :
         IF IsRaise(content_text) THEN content_text
         ELSE With(IF role = PyStr(<<"a","s","s","i","s","t","a","n","t">>)
                   THEN rstrip(split_first(content_text.v, sources_marker))
                   ELSE content_text.v, LAMBDA text :
              IF ~isinstance(role, "str")
              THEN NoAttribute(role, <<"c","a","p","i","t","a","l","i","z","e">>)
              ELSE PyStr(capitalize(role.v) \o <<":", " ">> \o text))))

\* One pass of the loop of _format_history_string (PessoasCulturaESG2.py): the
\* line appended for msg, PyNone when the turn is skipped.
HistoryLine(msg) ==
    With(get(msg, "role", PyStr(<<"u","n","k","n","o","w","n">>)), LAMBDA role :
    IF IsRaise(role) THEN role
    ELSE With(ContentText(get(msg, "content", PyStr(<<>>))), LAMBDA content_text :
         IF IsRaise(content_text) THEN content_text
         ELSE IF ~Truthy(content_text) THEN PyNone
         ELSE With(IF role = PyStr(<<"a","s","s","i","s","t","a","n","t">>)
                   THEN rstrip(split_first(content_text.v, sources_marker))
                   ELSE content_text.v, LAMBDA text :
              IF text = <<>> THEN PyNone
              ELSE IF ~isinstance(role, "str")
              THEN NoAttribute(role, <<"c","a","p","i","t","a","l","i","z","e">>)
              ELSE PyStr(capitalize(role.v) \o <<":", " ">> \o text))))

RECURSIVE HistoryParts(_)
\* history_parts after the loop, or the exception the loop raised.
HistoryParts(history_messages) ==
    IF history_messages = <<>> THEN PyList(<<>>)
    ELSE With(HistoryLine(Head(history_messages)), LAMBDA line :
         IF IsRaise(line) THEN line
         ELSE With(HistoryParts(Tail(history_messages)), LAMBDA rest :
              IF IsRaise(rest) THEN rest
              ELSE IF line = PyNone THEN rest
              ELSE PyList(<<line.v>> \o rest.v)))

\* Pipeline._format_history_string of PessoasCulturaESG2.py
_format_history_string(history_messages) ==
    With(HistoryParts(history_messages), LAMBDA history_parts :
    IF IsRaise(history_parts) THEN history_parts
    ELSE PyStr(join(<<"\n">>, history_parts.v)))

\* One pass of the loop of _format_history_string (weduka2.py): the text
\* added to history_str, '' when the turn is skipped.
weduka_HistoryLine(msg) ==
    With(get(msg, "role", PyStr(<<"u","n","k","n","o","w","n">>)), LAMBDA role :
    IF IsRaise(role) THEN role
    ELSE IF ~isinstance(role, "str")
    THEN NoAttribute(role, <<"c","a","p","i","t","a","l","i","z","e">>)
    ELSE With(ContentText(get(msg, "content", PyStr(<<>>))), LAMBDA content_text :
         IF IsRaise(content_text) THEN content_text
         ELSE IF ~Truthy(content_text) THEN PyStr(<<>>)
         ELSE PyStr(capitalize(role.v) \o <<":", " ">> \o strip(content_text.v)
                    \o <<"\n">>)))

RECURSIVE weduka_HistoryStr(_)
\* history_str after the loop, or the exception the loop raised.
weduka_HistoryStr(history_messages) ==
    IF history_messages = <<>> THEN PyStr(<<>>)
    ELSE With(weduka_HistoryLine(Head(history_messages)), LAMBDA line :
         IF IsRaise(line) THEN line
         ELSE With(weduka_HistoryStr(Tail(history_messages)), LAMBDA rest :
              IF IsRaise(rest) THEN rest ELSE PyStr(line.v \o rest.v)))

\* Pipeline._format_history_string of weduka2.py
weduka_format_history_string(history_messages) ==
    With(weduka_HistoryStr(history_messages), LAMBDA history_str :
    IF IsRaise(history_str) THEN history_str ELSE PyStr(strip(history_str.v)))

\* The test made on the text extracted from the content: a list counts as a
\* duplicate whenever its text parts, joined, are the incoming message.
is_duplicate_ExtractedText(last_msg_content, user_message) ==
    ContentText(last_msg_content) = user_message

\* is_duplicate of PessoasCulturaESG2.py: the last turn's content is the
\* incoming message, as a str or as a single text part.
is_duplicate(last_msg_content, user_message) ==
    \/ isinstance(last_msg_content, "str") /\ last_msg_content = user_message
    \/ /\ isinstance(last_msg_content, "list")
       /\ Len(last_msg_content.v) = 1
       /\ IsTextPart(last_msg_content.v[1])
       /\ get(last_msg_content.v[1], "text", PyNone) = user_message

\* is_duplicate of weduka2.py: as a str, or as the only text part of a list.
weduka_is_duplicate(last_msg_content, user_message) ==
    \/ isinstance(last_msg_content, "str") /\ last_msg_content = user_message
    \/ /\ isinstance(last_msg_content, "list")
       /\ TextParts(last_msg_content.v) = <<user_message>>

\* conversation_messages handed to the History Formatter
\* (PessoasCulturaESG2.py): the messages after pop_system_message, without
\* the last turn when it is a user turn that duplicates user_message.
ConversationMessages(messages, user_message) ==
    With(pop_system_message(messages), LAMBDA popped :
    IF IsRaise(popped) THEN popped
    ELSE With(popped.v[2], LAMBDA conversation_messages :
         IF conversation_messages = <<>> THEN PyList(conversation_messages)
         ELSE With(conversation_messages[Len(conversation_messages)], LAMBDA last :
              With(get(last, "role", PyNone), LAMBDA role :
              IF IsRaise(role) THEN role
              ELSE IF role = PyStr(<<"u","s","e","r">>)
                      /\ is_duplicate(get(last, "content", PyNone), user_message)
              THEN PyList(SubSeq(conversation_messages, 1,
                                 Len(conversation_messages) - 1))
              ELSE PyList(conversation_messages)))))

\* The same steps in weduka2.py.
weduka_ConversationMessages(messages, user_message) ==
    With(pop_system_message(messages), LAMBDA popped :
    IF IsRaise(popped) THEN popped
    ELSE With(popped.v[2], LAMBDA conversation_messages :
         IF conversation_messages = <<>> THEN PyList(conversation_messages)
         ELSE With(conversation_messages[Len(conversation_messages)], LAMBDA last :
              With(get(last, "role", PyNone), LAMBDA role :
              IF IsRaise(role) THEN role
              ELSE IF role = PyStr(<<"u","s","e","r">>)
                      /\ weduka_is_duplicate(get(last, "content", PyNone), user_message)
              THEN PyList(SubSeq(conversation_messages, 1,
                                 Len(conversation_messages) - 1))
              ELSE PyList(conversation_messages)))))

\* ------------------------------------------------------------------------
\* Instance state
\* ------------------------------------------------------------------------

VARIABLES
    variant,        \* the file whose Pipeline class the instance is of
    valves          \* self.valves, set by __init__ from the environment

\* The two Anima pipelines.
Variants == {"PessoasCulturaESG2", "weduka2"}

\* ------------------------------------------------------------------------
\* Request Orchestrator: the steps of pipe before the backend call
\* ------------------------------------------------------------------------

\* str(x) of a str or an int >= 0
str(x) == IF isinstance(x, "int") THEN str_int(x.v) ELSE x.v

RECURSIVE rstrip_slash(_)
\* s.rstrip('/')
rstrip_slash(s) ==
    IF s # <<>> /\ s[Len(s)] = "/" THEN rstrip_slash(SubSeq(s, 1, Len(s) - 1)) ELSE s

\* The string pipe returns when user_message is empty (both files).
NoUserMessageError == PyStr(
    <<"E","r","r","o",":"," ","N","e","n","h","u","m","a"," ","m","e","n",
      "s","a","g","e","m"," ","d","e"," ","u","s","u","á","r","i","o"," ",
      "f","o","r","n","e","c","i","d","a",".">>)

\* The string pipe of PessoasCulturaESG2.py returns when no user id is found.
NoUserIdError == PyStr(
    <<"E","r","r","o",":"," ","I","D"," ","d","o"," ","u","s","u","á","r",
      "i","o"," ","(","'","u","s","e","r",".","n","a","m","e","'"," ","o",
      "u"," ","'","u","s","e","r","_","i","d","'",")"," ","n","ã","o"," ",
      "e","n","c","o","n","t","r","a","d","o"," ","n","a"," ","r","e","q",
      "u","i","s","i","ç","ã","o",".">>)

\* The string pipe of weduka2.py returns when no user id is found.
weduka_NoUserIdError == PyStr(
    <<"E","r","r","o",":"," ","I","D"," ","d","o"," ","u","s","u","á","r",
      "i","o"," ","(","'","u","s","e","r",".","i","d","'",","," ","'","u",
      "s","e","r",".","n","a","m","e","'",","," ","o","r"," ","'","u","s",
      "e","r","_","i","d","'",")"," ","n","ã","o"," ","e","n","c","o","n",
      "t","r","a","d","o"," ","n","a"," ","r","e","q","u","i","s","i","ç",
      "ã","o",".">>)

\* user_info.get("name") when body["user"] is a dict, else None.
UserName(body) ==
    LET user_info == get(body, "user", PyNone)
    IN  IF isinstance(user_info, "dict") THEN get(user_info, "name", PyNone) ELSE PyNone

\* The two lookups in the other order: body.user_id first, user.name second.
req_user_id_UserIdFirst(body) ==
    With(get(body, "user_id", PyNone), LAMBDA user_id :
    IF Truthy(user_id) THEN user_id ELSE UserName(body))

\* req_user_id of PessoasCulturaESG2.py after the two lookups.
req_user_id(body) ==
    With(UserName(body), LAMBDA name :
    IF Truthy(name) THEN name ELSE get(body, "user_id", PyNone))

\* req_user_id of weduka2.py after the two lookups.
weduka_req_user_id(body) ==
    With(UserName(body), LAMBDA name :
    IF ~Truthy(name) /\ Truthy(get(body, "user_id", PyNone))
    THEN get(body, "user_id", PyNone)
    ELSE name)

\* base_instructions of PessoasCulturaESG2.py
base_instructions(body) ==
    LET t == get(body, "prompt_template", PyStr(valves.PROMPT_TEMPLATE_ANIMA))
    IN  IF ~isinstance(t, "str") \/ ~Truthy(t) THEN valves.PROMPT_TEMPLATE_ANIMA ELSE t.v

\* base_instructions of weduka2.py
weduka_base_instructions(body) ==
    LET custom_template_instructions == get(body, "prompt_template", PyNone)
    IN  IF Truthy(custom_template_instructions)
           /\ isinstance(custom_template_instructions, "str")
        THEN custom_template_instructions.v
        ELSE valves.PROMPT_TEMPLATE_ANIMA

HistoryOpening == 
    <<"\n","\n","-","-","-"," ","H","i","s","t","ó","r","i","c","o"," ","d",
      "a"," ","C","o","n","v","e","r","s","a"," ","A","n","t","e","r","i",
      "o","r"," ","-","-","-">>

HistoryClosing == 
    <<"-","-","-"," ","F","i","m"," ","d","o"," ","H","i","s","t","ó","r",
      "i","c","o"," ","-","-","-">>

QuestionOpening == 
    <<"\n","\n","-","-","-"," ","P","e","r","g","u","n","t","a"," ","A","t",
      "u","a","l"," ","d","o"," ","U","s","u","á","r","i","o"," ","-","-",
      "-">>

LanguageInstruction == 
    <<"\n","\n","(","I","n","s","t","r","u","ç","ã","o",":"," ","P","o","r",
      " ","f","a","v","o","r",","," ","m","e"," ","r","e","s","p","o","n",
      "d","a"," ","e","m"," ","p","o","r","t","u","g","u","ê","s"," ","b",
      "r","a","s","i","l","e","i","r","o",".",")">>

\* The parts with the history section put after the current question.
prompt_parts_HistoryLast(base, history_string, question) ==
    <<base, QuestionOpening, question>>
    \o (IF history_string # <<>>
        THEN <<HistoryOpening, history_string, HistoryClosing>>
        ELSE <<>>)

\* prompt_parts: base instructions, the history section when history_string
\* is not empty, the current-question section.
prompt_parts(base, history_string, question) ==
    <<base>>
    \o (IF history_string # <<>>
        THEN <<HistoryOpening, history_string, HistoryClosing>>
        ELSE <<>>)
    \o <<QuestionOpening, question>>

\* prompt_to_send of PessoasCulturaESG2.py
prompt_to_send(body, history_string, user_message) ==
    strip(join(<<"\n">>, prompt_parts(base_instructions(body), history_string,
                                      strip(user_message) \o LanguageInstruction)))

\* prompt_to_send of weduka2.py
weduka_prompt_to_send(body, history_string, user_message) ==
    strip(join(<<"\n">>, prompt_parts(weduka_base_instructions(body), history_string,
                                      user_message)))

RetrieveAndGeneratePath == 
    <<"/","r","e","t","r","i","e","v","e","a","n","d","g","e","n","e","r",
      "a","t","e">>

\* api_url of PessoasCulturaESG2.py
api_url ==
    rstrip_slash(valves.ANIMA_API_BASE_URL) \o <<"/">> \o valves.ID_KNOWLEDGE_BASE
    \o RetrieveAndGeneratePath

\* api_url of weduka2.py
weduka_api_url ==
    valves.ANIMA_API_BASE_URL \o <<"/">> \o valves.ID_KNOWLEDGE_BASE
    \o RetrieveAndGeneratePath

\* payload (both files)
Payload(user_id, prompt) ==
    PyDict([userId    |-> PyStr(str(user_id)),
            sessionId |-> PyStr(<<>>),
            prompt    |-> PyStr(prompt),
            modelId   |-> PyStr(valves.ID_BEDROCK_MODEL),
            model     |-> PyStr(valves.ANIMA_MODEL_NAME),
            apiKey    |-> PyStr(valves.ANIMA_API_KEY),
            tag       |-> PyStr(valves.ID_KNOWLEDGE_BASE)])

\* The body of pipe's try block up to the call of _call_anima_api
\* (PessoasCulturaESG2.py): the payload, or the exception raised on the way.
BuildPayload(user_message, messages, body) ==
    With(ConversationMessages(messages.v, user_message),
         LAMBDA conversation_messages :
    IF IsRaise(conversation_messages) THEN conversation_messages
    ELSE With(_format_history_string(conversation_messages.v), LAMBDA history_string :
         IF IsRaise(history_string) THEN history_string
         ELSE Payload(req_user_id(body),
                      prompt_to_send(body, history_string.v, user_message.v))))

\* The same steps in weduka2.py.
weduka_BuildPayload(user_message, messages, body) ==
    With(weduka_ConversationMessages(messages.v, user_message),
         LAMBDA conversation_messages :
    IF IsRaise(conversation_messages) THEN conversation_messages
    ELSE With(weduka_format_history_string(conversation_messages.v),
              LAMBDA history_string :
         IF IsRaise(history_string) THEN history_string
         ELSE Payload(weduka_req_user_id(body),
                      weduka_prompt_to_send(body, history_string.v, user_message.v))))

\* ------------------------------------------------------------------------
\* The backend call: _call_anima_api
\*
\* The outcome of requests.post is either an exception it raises, Raise(cls,
\* msg), or a response [t |-> "response", status, body]; a response body is
\* [t |-> "json", v |-> the decoded value] or, when it is not JSON,
\* [t |-> "text", v |-> the raw text, exc |-> what response.json() raises].
\* ------------------------------------------------------------------------

Response(status, body) == [t |-> "response", status |-> status, body |-> body]

JsonBody(data) == [t |-> "json", v |-> data]

TextBody(text, exc) == [t |-> "text", v |-> text, exc |-> exc]

\* The classes named by the except clauses that an exception of class cls is
\* an instance of. What response.json() raises on an undecodable body depends
\* on the installed libraries: requests >= 2.27 raises its own JSONDecodeError,
\* a RequestException that also derives from json.JSONDecodeError, or from
\* simplejson's when simplejson is installed; older versions raise the json
\* (or simplejson) error itself.
Bases(cls) ==
    CASE cls = "ReadTimeout"        -> {"Timeout", "RequestException"}
      [] cls = "ConnectTimeout"     -> {"ConnectionError", "Timeout", "RequestException"}
      [] cls = "ConnectionError"    -> {"ConnectionError", "RequestException"}
      [] cls = "HTTPError"          -> {"HTTPError", "RequestException"}
      [] cls = "InvalidURL"         -> {"RequestException"}
      [] cls = "requests.JSONDecodeError"            -> {"RequestException", "json.JSONDecodeError"}
      [] cls = "requests.JSONDecodeError+simplejson" -> {"RequestException"}
      [] cls = "json.JSONDecodeError"                -> {"json.JSONDecodeError"}
      [] OTHER                      -> {}

\* type(e).__name__
ClassName(cls) ==
    CASE cls = "AttributeError" -> <<"A","t","t","r","i","b","u","t","e","E","r","r","o","r">>
      [] cls = "TypeError"      -> <<"T","y","p","e","E","r","r","o","r">>
      [] cls = "RuntimeError"   -> <<"R","u","n","t","i","m","e","E","r","r","o","r">>
      [] cls \in {"requests.JSONDecodeError", "requests.JSONDecodeError+simplejson",
                  "json.JSONDecodeError", "simplejson.JSONDecodeError"}
                                -> 
    <<"J","S","O","N","D","e","c","o","d","e","E","r","r","o","r">>

\* The except clauses of _call_anima_api, in the order they are written.
ExceptClauses ==
    <<"Timeout", "HTTPError", "ConnectionError", "RequestException",
      "json.JSONDecodeError", "Exception">>

\* The except clause that handles an exception of class cls: the first one,
\* in the order written, that the exception is an instance of.
HandlerOf(cls) ==
    LET matching == {i \in 1..Len(ExceptClauses) :
                        ExceptClauses[i] \in Bases(cls) \cup {"Exception"}}
    IN  ExceptClauses[CHOOSE i \in matching : \A j \in matching : i <= j]

\* response.raise_for_status() raises HTTPError for these statuses.
IsHttpError(status) == 400 <= status /\ status < 600

\* The key of a one-key JSON object, as text.
KeyText(k) ==
    CASE k = "detail"  -> <<"d","e","t","a","i","l">>
      [] k = "message" -> <<"m","e","s","s","a","g","e">>

RECURSIVE json_dumps(_)
\* json.dumps(v) for None, an int >= 0, an ASCII str without escapes, a list
\* of such values and an object with one key.
json_dumps(v) ==
    CASE v.t = "None" -> <<"n","u","l","l">>
      [] v.t = "int"  -> str_int(v.v)
      [] v.t = "str"  -> <<"\"">> \o v.v \o <<"\"">>
      [] v.t = "list" ->
            <<"[">> \o join(<<",", " ">>, [i \in 1..Len(v.v) |-> json_dumps(v.v[i])])
            \o <<"]">>
      [] v.t = "dict" ->
            IF DOMAIN v.v = {} THEN <<"{", "}">>
            ELSE LET k == CHOOSE k \in DOMAIN v.v : TRUE
                 IN  <<"{", "\"">> \o KeyText(k) \o <<"\"", ":", " ">>
                     \o json_dumps(v.v[k]) \o <<"}">>

\* error_body_text of the HTTPError clause of PessoasCulturaESG2.py; the
\* exception of e.response.json() escapes when `except json.JSONDecodeError`
\* does not match it.
error_body_text(body) ==
    IF body.t = "json"
    THEN PyStr(<<" ","D","e","t","a","l","h","e",":"," ">> \o json_dumps(body.v))
    ELSE IF "json.JSONDecodeError" \in Bases(body.exc.v)
    THEN PyStr(
    <<" ","D","e","t","a","l","h","e"," ","(","r","a","w",")",":"," ">>
               \o SubSeq(body.v, 1, IF Len(body.v) < 200 THEN Len(body.v) ELSE 200)
               \o <<".", ".", ".">>)
    ELSE body.exc

\* The message of the HTTPError clause of PessoasCulturaESG2.py, by status.
HttpErrorText(status_code, url, detail) ==
    IF status_code = 401 \/ status_code = 403
    THEN 
    <<"E","r","r","o"," ","d","e"," ","A","u","t","e","n","t","i","c","a",
      "ç","ã","o","/","A","u","t","o","r","i","z","a","ç","ã","o"," ","(">> \o str_int(status_code)
         \o 
    <<")"," ","a","o"," ","a","c","e","s","s","a","r"," ","a"," ","A","P",
      "I","."," ","V","e","r","i","f","i","q","u","e"," ","a"," ","A","P",
      "I"," ","K","e","y",".">>
    ELSE IF status_code = 404
    THEN <<"E","r","r","o"," ","(">> \o str_int(status_code) \o 
    <<")",":"," ","R","e","c","u","r","s","o"," ","n","ã","o"," ","e","n",
      "c","o","n","t","r","a","d","o"," ","e","m"," ">> \o url
         \o 
    <<"."," ","V","e","r","i","f","i","q","u","e"," ","I","D"," ","d","a",
      " ","B","a","s","e","/","E","n","d","p","o","i","n","t",".">>
    ELSE IF status_code = 429
    THEN 
    <<"E","r","r","o",":"," ","L","i","m","i","t","e"," ","d","e"," ","r",
      "e","q","u","i","s","i","ç","õ","e","s"," ","p","a","r","a"," ","a",
      " ","A","P","I"," ","e","x","c","e","d","i","d","o","."," ","T","e",
      "n","t","e"," ","n","o","v","a","m","e","n","t","e"," ","m","a","i",
      "s"," ","t","a","r","d","e",".">>
    ELSE IF 400 <= status_code /\ status_code < 500
    THEN 
    <<"E","r","r","o"," ","n","a"," ","r","e","q","u","i","s","i","ç","ã",
      "o"," ","(">> \o str_int(status_code)
         \o 
    <<")"," ","p","a","r","a"," ","a"," ","A","P","I","."," ","V","e","r",
      "i","f","i","q","u","e"," ","o","s"," ","d","a","d","o","s"," ","e",
      "n","v","i","a","d","o","s",".">> \o detail
    ELSE 
    <<"E","r","r","o"," ","i","n","t","e","r","n","o"," ","n","a"," ","A",
      "P","I"," ","A","n","i","m","a"," ","(">> \o str_int(status_code)
         \o 
    <<")","."," ","T","e","n","t","e"," ","n","o","v","a","m","e","n","t",
      "e"," ","m","a","i","s"," ","t","a","r","d","e",".">> \o detail

\* The message of the HTTPError clause of weduka2.py, by status.
weduka_HttpErrorText(status_code) ==
    IF status_code = 429
    THEN 
    <<"E","r","r","o",":"," ","M","u","i","t","a","s"," ","r","e","q","u",
      "i","s","i","ç","õ","e","s"," ","p","a","r","a"," ","a"," ","A","P",
      "I","."," ","T","e","n","t","e"," ","n","o","v","a","m","e","n","t",
      "e"," ","m","a","i","s"," ","t","a","r","d","e",".">>
    ELSE IF 400 <= status_code /\ status_code < 500
    THEN 
    <<"E","r","r","o"," ","n","a"," ","r","e","q","u","i","s","i","ç","ã",
      "o"," ","p","a","r","a"," ","a"," ","A","P","I"," ","(">> \o str_int(status_code) \o <<")", ".">>
    ELSE 
    <<"E","r","r","o"," ","i","n","t","e","r","n","o"," ","n","a"," ","A",
      "P","I"," ","A","n","i","m","a"," ","(">> \o str_int(status_code)
         \o 
    <<")","."," ","T","e","n","t","e"," ","n","o","v","a","m","e","n","t",
      "e"," ","m","a","i","s"," ","t","a","r","d","e",".">>

\* The fallback of PessoasCulturaESG2.py when there is neither text nor block.
FallbackText == 
    <<"N","ã","o"," ","f","o","i"," ","p","o","s","s","í","v","e","l"," ",
      "g","e","r","a","r"," ","u","m","a"," ","r","e","s","p","o","s","t",
      "a"," ","c","o","m"," ","a","s"," ","i","n","f","o","r","m","a","ç",
      "õ","e","s"," ","d","i","s","p","o","n","í","v","e","i","s",".">>

\* The fallback of weduka2.py.
weduka_FallbackText == 
    <<"N","ã","o"," ","f","o","i"," ","p","o","s","s","í","v","e","l"," ",
      "g","e","r","a","r"," ","u","m","a"," ","r","e","s","p","o","s","t",
      "a"," ","o","u"," ","e","n","c","o","n","t","r","a","r"," ","i","n",
      "f","o","r","m","a","ç","õ","e","s"," ","r","e","l","e","v","a","n",
      "t","e","s",".">>

\* The rule without its second branch: an empty output_text gives the
\* fallback even when there is a citation block.
CombineText_NoCitationsOnly(output_text, citations_text) ==
    IF output_text # <<>> THEN output_text \o citations_text ELSE FallbackText

\* final_response_text of PessoasCulturaESG2.py from output_text and
\* citations_text.
CombineText(output_text, citations_text) ==
    IF output_text # <<>> THEN output_text \o citations_text
    ELSE IF citations_text # <<>> THEN lstrip(citations_text)
    ELSE FallbackText

\* final_response_text of weduka2.py from output_text and citations_text.
weduka_CombineText(output_text, citations_text) ==
    IF output_text # <<>>
    THEN (IF citations_text # <<>> THEN output_text \o citations_text ELSE output_text)
    ELSE IF citations_text # <<>> THEN lstrip(citations_text)
    ELSE weduka_FallbackText

\* output_text: data.get('outputText', '').strip()
OutputText(data) ==
    With(get(data, "outputText", PyStr(<<>>)), LAMBDA outputText :
    IF IsRaise(outputText) THEN outputText
    ELSE IF ~isinstance(outputText, "str")
    THEN NoAttribute(outputText, <<"s","t","r","i","p">>)
    ELSE PyStr(strip(outputText.v)))

\* citations_list: data.get("citations", []), [] when it is no list.
CitationsList(data) ==
    With(get(data, "citations", PyList(<<>>)), LAMBDA citations_list :
    IF isinstance(citations_list, "list") THEN citations_list ELSE PyList(<<>>))

\* The test written as an equality: only the bare indicator is recognised.
HasNotFoundIndicator_Equals(output_text) == output_text = not_found_indicator

\* Whether output_text carries the backend's own "not found" answer.
HasNotFoundIndicator(output_text) == contains(output_text, not_found_indicator)

\* The try block of PessoasCulturaESG2.py after response.json(): the text
\* built from data, or the exception raised on the way.
SuccessText(data) ==
    With(OutputText(data), LAMBDA output_text :
    IF IsRaise(output_text) THEN output_text
    ELSE IF HasNotFoundIndicator(output_text.v) THEN output_text
    ELSE With(_format_citations(CitationsList(data)), LAMBDA citations :
         IF IsRaise(citations) THEN citations
         ELSE PyStr(CombineText(output_text.v, citations.v))))

\* The try block of weduka2.py after response.json().
weduka_SuccessText(data) ==
    With(OutputText(data), LAMBDA output_text :
    IF IsRaise(output_text) THEN output_text
    ELSE With(weduka_format_citations(CitationsList(data)), LAMBDA citations :
         IF IsRaise(citations) THEN citations
         ELSE PyStr(weduka_CombineText(output_text.v, citations.v))))

\* requests.post, response.raise_for_status() and response.json() for a
\* backend outcome: the decoded data, or the exception one of them raises.
ResponseJson(outcome) ==
    IF IsRaise(outcome) THEN outcome
    ELSE IF IsHttpError(outcome.status) THEN Raise("HTTPError", <<>>)
    ELSE IF outcome.body.t = "text" THEN outcome.body.exc
    ELSE outcome.body.v

\* What the try block of PessoasCulturaESG2.py evaluates to: the text built
\* from the decoded data, or the exception raised on the way.
TryBlock(outcome) ==
    With(ResponseJson(outcome), LAMBDA data :
    IF IsRaise(data) THEN data ELSE SuccessText(data))

\* What the try block of weduka2.py evaluates to.
weduka_TryBlock(outcome) ==
    With(ResponseJson(outcome), LAMBDA data :
    IF IsRaise(data) THEN data ELSE weduka_SuccessText(data))

\* final_response_text as the except clause named handler sets it
\* (PessoasCulturaESG2.py) for the exception e of the try block; the exception
\* of e.response.json() when it escapes the HTTPError clause.
HandlerText(handler, e, url, outcome) ==
    CASE handler = "Timeout" ->
            PyStr(<<"E","r","r","o",":"," ","A"," ","A","P","I"," ","e","m"," ">> \o url
                  \o <<" ","d","e","m","o","r","o","u"," ","m","u","i","t","o"," ","p","a",
      "r","a"," ","r","e","s","p","o","n","d","e","r"," ","(","t","i","m",
      "e","o","u","t"," ","d","e"," ">>
                  \o str_int(valves.ANIMA_API_TIMEOUT) \o <<"s", ")", ".">>)
      [] handler = "HTTPError" ->
            With(error_body_text(outcome.body), LAMBDA detail :
            IF IsRaise(detail) THEN detail
            ELSE PyStr(HttpErrorText(outcome.status, url, detail.v)))
      [] handler = "ConnectionError" ->
            PyStr(<<"E","r","r","o"," ","d","e"," ","c","o","n","e","x","ã","o"," ","a",
      "o"," ","t","e","n","t","a","r"," ","a","c","e","s","s","a","r"," ",
      "a"," ","A","P","I"," ","A","n","i","m","a"," ","e","m"," ">> \o url \o <<".">>)
      [] handler = "RequestException" ->
            PyStr(<<"E","r","r","o"," ","i","n","e","s","p","e","r","a","d","o"," ","d",
      "e"," ","c","o","m","u","n","i","c","a","ç","ã","o"," ","c","o","m",
      " ","a"," ","A","P","I"," ","A","n","i","m","a",":"," ">> \o e.msg)
      [] handler = "json.JSONDecodeError" ->
            PyStr(<<"E","r","r","o",":"," ","R","e","s","p","o","s","t","a"," ","i","n",
      "v","á","l","i","d","a"," ","(","n","ã","o"," ","J","S","O","N",")",
      " ","r","e","c","e","b","i","d","a"," ","d","a"," ","A","P","I"," ",
      "e","m"," ">> \o url \o <<".">>)
      [] handler = "Exception" ->
            PyStr(<<"O","c","o","r","r","e","u"," ","u","m"," ","e","r","r","o"," ","i",
      "n","e","s","p","e","r","a","d","o"," ","d","u","r","a","n","t","e",
      " ","a"," ","c","h","a","m","a","d","a"," ","d","a"," ","A","P","I",
      ":"," ">> \o ClassName(e.v))

\* Pipeline._call_anima_api of PessoasCulturaESG2.py: the text returned for a
\* backend outcome, or the exception that escapes an except clause.
_call_anima_api(url, outcome) ==
    With(TryBlock(outcome), LAMBDA r :
    With(IF IsRaise(r) THEN HandlerText(HandlerOf(r.v), r, url, outcome) ELSE r,
         LAMBDA final_response_text :
    IF IsRaise(final_response_text) THEN final_response_text
    ELSE PyStr(strip(final_response_text.v))))

\* final_response_text as the except clause named handler sets it (weduka2.py).
weduka_HandlerText(handler, e, outcome) ==
    CASE handler = "Timeout" ->
            PyStr(<<"E","r","r","o",":"," ","A"," ","A","P","I"," ","d","e","m","o","r",
      "o","u"," ","m","u","i","t","o"," ","p","a","r","a"," ","r","e","s",
      "p","o","n","d","e","r"," ","(","t","i","m","e","o","u","t"," ","d",
      "e"," ">>
                  \o str_int(valves.ANIMA_API_TIMEOUT) \o <<"s", ")", ".">>)
      [] handler = "HTTPError" -> PyStr(weduka_HttpErrorText(outcome.status))
      [] handler = "ConnectionError" ->
            PyStr(<<"E","r","r","o"," ","d","e"," ","c","o","n","e","x","ã","o"," ","a",
      "o"," ","t","e","n","t","a","r"," ","a","c","e","s","s","a","r"," ",
      "a"," ","A","P","I"," ","A","n","i","m","a",".">>)
      [] handler = "RequestException" ->
            PyStr(<<"E","r","r","o"," ","d","e"," ","c","o","m","u","n","i","c","a","ç",
      "ã","o"," ","c","o","m"," ","a"," ","A","P","I"," ","A","n","i","m",
      "a",":"," ">> \o e.msg)
      [] handler = "json.JSONDecodeError" ->
            PyStr(<<"E","r","r","o",":"," ","R","e","s","p","o","s","t","a"," ","i","n",
      "v","á","l","i","d","a"," ","(","n","ã","o"," ","J","S","O","N",")",
      " ","d","a"," ","A","P","I"," ","A","n","i","m","a",".">>)
      [] handler = "Exception" ->
            PyStr(<<"O","c","o","r","r","e","u"," ","u","m"," ","e","r","r","o"," ","i",
      "n","e","s","p","e","r","a","d","o"," ","n","a"," ","c","h","a","m",
      "a","d","a"," ","d","a"," ","A","P","I",":"," ">> \o e.msg)

\* Pipeline._call_anima_api of weduka2.py.
weduka_call_anima_api(url, outcome) ==
    With(weduka_TryBlock(outcome), LAMBDA r :
    IF IsRaise(r) THEN weduka_HandlerText(HandlerOf(r.v), r, outcome) ELSE r)

\* pipe without its except clause: the exception reaches the caller.
PipeExcept_Reraise(e) == e

\* An except clause that reports the exception's message, not its class.
PipeExcept_Message(e) ==
    PyStr(
    <<"O","c","o","r","r","e","u"," ","u","m"," ","e","r","r","o"," ","i",
      "n","e","s","p","e","r","a","d","o"," ","a","o"," ","p","r","o","c",
      "e","s","s","a","r"," ","s","u","a"," ","s","o","l","i","c","i","t",
      "a","ç","ã","o",":"," ">> \o e.msg)

\* The except clause of pipe (PessoasCulturaESG2.py): every exception raised
\* in the try block becomes a returned string naming its class.
PipeExcept(e) ==
    PyStr(
    <<"O","c","o","r","r","e","u"," ","u","m"," ","e","r","r","o"," ","i",
      "n","e","s","p","e","r","a","d","o"," ","a","o"," ","p","r","o","c",
      "e","s","s","a","r"," ","s","u","a"," ","s","o","l","i","c","i","t",
      "a","ç","ã","o",":"," ">>
          \o ClassName(e.v))

\* The except clause of pipe (weduka2.py): the string carries str(e).
weduka_PipeExcept(e) ==
    PyStr(
    <<"O","c","o","r","r","e","u"," ","u","m"," ","e","r","r","o"," ","i",
      "n","e","s","p","e","r","a","d","o"," ","n","o"," ","p","i","p","e",
      "l","i","n","e",":"," ">> \o e.msg)

\* ------------------------------------------------------------------------
\* Configurations: self.valves after __init__
\* ------------------------------------------------------------------------

\* Valves of PessoasCulturaESG2.py: the defaults of the class, with the base
\* URL and the prompt template taken from the environment.
Valves(base_url) ==
    [ANIMA_API_KEY         |-> <<"A","N","I","M","A","_","I","A">>,
     ANIMA_MODEL_NAME      |-> 
    <<"P","e","s","s","o","a","s","C","u","l","t","u","r","a","E","S","G">>,
     ID_KNOWLEDGE_BASE     |-> <<"K","S","E","T","S","X","I","H","N","4">>,
     ID_BEDROCK_MODEL      |-> 
    <<"a","m","a","z","o","n",".","n","o","v","a","-","l","i","t","e","-",
      "v","1",":","0">>,
     ANIMA_API_TIMEOUT     |-> 60,
     PROMPT_TEMPLATE_ANIMA |-> 
    <<"R","e","s","p","o","n","d","a"," ","a","p","e","n","a","s"," ","c",
      "o","m"," ","a"," ","b","a","s","e"," ","d","e"," ","c","o","n","h",
      "e","c","i","m","e","n","t","o",".">>,
     ANIMA_API_BASE_URL    |-> base_url]

\* Valves of weduka2.py.
weduka_Valves(base_url) ==
    [ANIMA_API_KEY         |-> <<"A","N","I","M","A","_","I","A">>,
     ANIMA_MODEL_NAME      |-> <<"w","e","d","u","k","a">>,
     ID_KNOWLEDGE_BASE     |-> <<"I","T","H","F","W","Z","R","F","D","I">>,
     ID_BEDROCK_MODEL      |-> 
    <<"a","m","a","z","o","n",".","n","o","v","a","-","l","i","t","e","-",
      "v","1",":","0">>,
     ANIMA_API_TIMEOUT     |-> 60,
     PROMPT_TEMPLATE_ANIMA |-> 
    <<"R","e","s","p","o","n","d","a"," ","a","p","e","n","a","s"," ","c",
      "o","m"," ","a"," ","b","a","s","e"," ","d","e"," ","c","o","n","h",
      "e","c","i","m","e","n","t","o",".">>,
     ANIMA_API_BASE_URL    |-> base_url]

\* Values of the environment variable ANIMA_URL_1.
BaseUrls == { 
    <<"h","t","t","p",":","/","/","a","n","i","m","a",":","8","0","0","0">>, 
    <<"h","t","t","p",":","/","/","a","n","i","m","a",":","8","0","0","0",
      "/">> }

\* The instances the model starts from.
Instances ==
    {[variant |-> "PessoasCulturaESG2", valves |-> Valves(u)] : u \in BaseUrls}
    \cup {[variant |-> "weduka2", valves |-> weduka_Valves(u)] : u \in BaseUrls}

\* ------------------------------------------------------------------------
\* Inputs of pipe and outcomes of the backend
\* ------------------------------------------------------------------------

\* A chat turn {"role": role, "content": content}.
Turn(role, content) == PyDict([role |-> PyStr(role), content |-> content])

\* A typed part {"type": "text", "text": text} of a list content.
TextPart(text) == PyDict([type |-> PyStr(<<"t","e","x","t">>), text |-> PyStr(text)])

\* A typed part that is not text.
ImagePart ==
    PyDict([type |-> PyStr(<<"i","m","a","g","e","_","u","r","l">>),
            image_url |-> PyStr(
    <<"h","t","t","p",":","/","/","i","m","g","/","1",".","p","n","g">>)])

RoleUser == <<"u","s","e","r">>

RoleAssistant == <<"a","s","s","i","s","t","a","n","t">>

RoleSystem == <<"s","y","s","t","e","m">>

Question == <<"Q","u","a","l"," ","o"," ","p","r","a","z","o","?">>

\* The same question with surrounding whitespace.
PaddedQuestion == 
    <<" ","Q","u","a","l"," ","o"," ","p","r","a","z","o","?","\n">>

\* An earlier answer of the assistant that ends in a citation block.
AnswerWithSources == 
    <<"P","e","r","g","u","n","t","e"," ","a","o"," ","R","H",".","\n","\n",
      "*","*","F","o","n","t","e","s",":","*","*","\n","1","."," ","d","o",
      "c",".","p","d","f">>

\* user_message values: empty, plain, with surrounding whitespace.
UserMessages == {PyStr(<<>>), PyStr(Question), PyStr(PaddedQuestion)}

\* messages values: conversations the host hands to pipe. The last one holds
\* an entry that is not a dict.
MessageLists ==
    { PyList(<<>>),
      PyList(<<Turn(RoleSystem, PyStr(<<"S","e","j","a"," ","b","r","e","v","e",".">>)),
               Turn(RoleUser, PyStr(Question))>>),
      PyList(<<Turn(RoleUser, PyStr(<<"O","i">>)),
               Turn(RoleAssistant, PyStr(AnswerWithSources)),
               Turn(RoleUser, PyList(<<TextPart(Question)>>))>>),
      PyList(<<Turn(RoleUser, PyStr(Question)),
               Turn(RoleAssistant, PyStr(<<"D","e","p","e","n","d","e","."," ">>))>>),
      PyList(<<Turn(RoleUser, PyList(<<ImagePart, TextPart(Question)>>))>>),
      PyList(<<Turn(RoleAssistant, PyStr(<<"D","e","p","e","n","d","e",".">>)),
               Turn(RoleUser, PyStr(PaddedQuestion))>>),
      PyList(<<PyStr(<<"o","i">>)>>) }

UserAna == <<"a","n","a">>

UserId7 == <<"u","7">>

\* body values: with and without user.name and user_id; without
\* prompt_template, and with one that is a text, a number, the empty str.
Bodies ==
    { EmptyDict,
      PyDict([user |-> PyDict([name |-> PyStr(UserAna)])]),
      PyDict([user |-> PyDict([name |-> PyStr(UserAna)]), user_id |-> PyStr(UserId7)]),
      PyDict([user |-> PyDict([name |-> PyStr(<<>>)]), user_id |-> PyStr(UserId7)]),
      PyDict([user |-> PyDict([email |-> PyStr(<<"a","@","b",".","c">>)]), user_id |-> PyInt(42)]),
      PyDict([user |-> PyStr(UserAna), user_id |-> PyStr(<<>>)]),
      PyDict([user |-> PyDict([name |-> PyStr(UserAna)]),
              prompt_template |-> PyStr(
    <<"R","e","s","p","o","n","d","a"," ","e","m"," ","u","m","a"," ","f",
      "r","a","s","e",".">>)]),
      PyDict([user_id |-> PyStr(UserId7), prompt_template |-> PyInt(5)]),
      PyDict([user_id |-> PyStr(UserId7), prompt_template |-> PyStr(<<>>)]) }

\* s repeated n times
Repeat(s, n) == [i \in 1..(n * Len(s)) |-> s[((i - 1) % Len(s)) + 1]]

\* A record {"retrievedReferences": [{"location": {"s3Location": {"uri": u}}}, ...]}
\* with one reference per element of uris.
S3Citation(uris) ==
    PyDict([retrievedReferences |->
        PyList([i \in 1..Len(uris) |->
            PyDict([location |-> PyDict([s3Location |-> PyDict([uri |-> uris[i]])])])])])

\* A record whose s3Location is null.
NullLocationCitation ==
    PyDict([retrievedReferences |->
        PyList(<<PyDict([location |-> PyDict([s3Location |-> PyNone])])>>)])

DocPdf == 
    <<"s","3",":","/","/","k","b","/","d","o","c",".","p","d","f">>

RunExe == 
    <<"s","3",":","/","/","k","b","/","r","u","n",".","e","x","e">>

Answer == 
    <<"O"," ","p","r","a","z","o"," ","é"," ","d","e"," ","3","0"," ","d",
      "i","a","s",".">>

\* The exceptions response.json() raises on a body that is not JSON, one per
\* library situation (see Bases).
DecodeErrors ==
    { Raise(c, 
    <<"E","x","p","e","c","t","i","n","g"," ","v","a","l","u","e",":"," ",
      "l","i","n","e"," ","1"," ","c","o","l","u","m","n"," ","1"," ","(",
      "c","h","a","r"," ","0",")">>) :
        c \in {"requests.JSONDecodeError", "requests.JSONDecodeError+simplejson",
               "json.JSONDecodeError", "simplejson.JSONDecodeError"} }

HtmlText == 
    <<"<","h","t","m","l",">","B","a","d"," ","G","a","t","e","w","a","y",
      "<","/","h","t","m","l",">">>

\* The exceptions requests.post raises.
PostErrors ==
    { Raise("ReadTimeout", 
    <<"R","e","a","d"," ","t","i","m","e","d"," ","o","u","t","."," ","(",
      "r","e","a","d"," ","t","i","m","e","o","u","t","=","6","0",")">>),
      Raise("ConnectTimeout", 
    <<"C","o","n","n","e","c","t","i","o","n"," ","t","o"," ","a","n","i",
      "m","a"," ","t","i","m","e","d"," ","o","u","t",".">>),
      Raise("ConnectionError", 
    <<"C","o","n","n","e","c","t","i","o","n"," ","r","e","f","u","s","e",
      "d">>),
      Raise("InvalidURL", <<"I","n","v","a","l","i","d"," ","U","R","L"," ">>),
      Raise("RuntimeError", <<"b","o","o","m">>) }

HttpErrorStatuses == {400, 401, 403, 404, 422, 429, 500, 503}

\* Responses with an error status: a JSON detail for every status, bodies that
\* are not JSON for 404 and 500, and a raw body longer than 200 characters.
ErrorResponses ==
    {Response(s, JsonBody(PyDict([detail |-> PyStr(<<"b","a","d">>)]))) : s \in HttpErrorStatuses}
    \cup {Response(s, TextBody(HtmlText, e)) : s \in {404, 500}, e \in DecodeErrors}
    \cup {Response(400, TextBody(Repeat(<<"x">>, 201),
                                 Raise("requests.JSONDecodeError", 
    <<"E","x","p","e","c","t","i","n","g"," ","v","a","l","u","e">>)))}

\* The decoded JSON of the responses with status 200.
SuccessData ==
    { PyDict([outputText |-> PyStr(Answer), citations |-> PyList(<<PyStr(DocPdf)>>)]),
      PyDict([outputText |-> PyStr(<<" ">> \o Answer \o <<" ", "\n">>),
              citations |-> PyList(<<>>)]),
      PyDict([outputText |-> PyStr(<<>>),
              citations |-> PyList(<<S3Citation(<<PyStr(DocPdf)>>)>>)]),
      PyDict([outputText |-> PyStr(<<>>), citations |-> PyList(<<>>)]),
      PyDict([outputText |-> PyStr(not_found_indicator),
              citations |-> PyList(<<PyStr(DocPdf)>>)]),
      PyDict([outputText |-> PyStr(<<" ">> \o not_found_indicator \o <<".", "\n">>),
              citations |-> PyList(<<PyStr(DocPdf)>>)]),
      PyDict([outputText |-> PyStr(<<" ", "\n">>),
              citations |-> PyList(<<PyStr(DocPdf), PyStr(DocPdf)>>)]),
      EmptyDict,
      PyDict([outputText |-> PyNone]),
      PyList(<<>>),
      PyDict([outputText |-> PyStr(Answer), citations |-> PyStr(DocPdf)]),
      PyDict([outputText |-> PyStr(Answer),
              citations |-> PyList(<<NullLocationCitation>>)]),
      PyDict([outputText |-> PyStr(Answer), citations |-> PyList(<<PyStr(RunExe)>>)]) }

\* Responses with status 200: decoded JSON, or a body that is not JSON.
SuccessResponses ==
    {Response(200, JsonBody(d)) : d \in SuccessData}
    \cup {Response(200, TextBody(HtmlText, e)) : e \in DecodeErrors}

\* Everything requests.post can end in.
Outcomes == PostErrors \cup ErrorResponses \cup SuccessResponses

\* ------------------------------------------------------------------------
\* pipe as a state machine
\*
\* An invocation i of pipe runs from the call to the request (PipeCall),
\* waits for the backend (BackendResponds) and hands its result to the host
\* (PipeReturn). requests[i] holds what invocation i has posted.
\* ------------------------------------------------------------------------

VARIABLES
    pc,             \* pc[i]: "idle", "waiting" (inside requests.post), "returned"
    args,           \* args[i]: user_message, messages and body of the invocation
    requests,       \* requests[i]: the requests posted by the invocation, in order
    response,       \* response[i]: the backend outcome the invocation received
    result,         \* result[i]: the value pipe returned, or the exception it raised
    lists,          \* lists[i]: the list objects of the invocation (see NewLists)
    citations_data, \* the argument of a direct call of _format_citations
    citations_text, \* what that call returned
    history_messages, \* the argument of a direct call of _format_history_string
    history_string, \* what that call returned
    history_log,    \* the calls made on that list: what each was given and returned
    history_frame   \* the locals of the call of _format_history_string under way, or None

\* The state of the Bedrock pipeline (code2.py).
VARIABLES
    session_id,     \* self.session_id
    in_flight,      \* in_flight[c]: the frame of conversation c's call of pipe, or None
    session_log     \* the calls of pipe and the returns of get_completion, in order

\* The state of the Langfuse filter (langfuse_filter_pipeline.py).
VARIABLES
    langfuse,         \* self.langfuse: None until set_langfuse has made the client
    chat_traces,      \* self.chat_traces
    chat_generations, \* self.chat_generations
    filter_log        \* the calls of inlet and outlet, in order

vars == <<variant, valves, pc, args, requests, response, result, lists,
          citations_data, citations_text, history_messages, history_string,
          history_log, history_frame, session_id, in_flight, session_log,
          langfuse, chat_traces, chat_generations, filter_log>>

\* The variables of the Langfuse filter.
filterVars == <<langfuse, chat_traces, chat_generations, filter_log>>

\* No Langfuse filter is part of the behaviour.
FilterUnused ==
    /\ langfuse = PyNone
    /\ chat_traces = PyNone
    /\ chat_generations = PyNone
    /\ filter_log = <<>>

\* The variables of the Anima pipelines, which the other pipelines leave alone.
animaVars == <<pc, args, requests, response, result, lists, citations_data,
               citations_text, history_messages, history_string, history_log,
               history_frame>>

\* The variables of the Bedrock pipeline.
bedrockVars == <<session_id, in_flight, session_log>>

\* No Bedrock pipeline is part of the behaviour.
BedrockUnused ==
    /\ session_id = PyNone
    /\ in_flight = PyNone
    /\ session_log = <<>>

NoArgs == [user_message |-> PyNone, messages |-> PyNone, body |-> PyNone]

IsPessoas == variant = "PessoasCulturaESG2"

\* The checks without the one on user_message.
EarlyReturn_NoMessageCheck(user_message, body) ==
    IF ~Truthy(req_user_id(body)) THEN NoUserIdError ELSE PyNone

\* The checks of pipe before its try block (PessoasCulturaESG2.py): the error
\* string returned at once, PyNone when both checks pass.
EarlyReturn(user_message, body) ==
    IF ~Truthy(user_message) THEN NoUserMessageError
    ELSE IF ~Truthy(req_user_id(body)) THEN NoUserIdError
    ELSE PyNone

\* The same checks in weduka2.py.
weduka_EarlyReturn(user_message, body) ==
    IF ~Truthy(user_message) THEN NoUserMessageError
    ELSE IF ~Truthy(weduka_req_user_id(body)) THEN weduka_NoUserIdError
    ELSE PyNone

\* A handler that posts again after a timeout.
RetryOn_Timeout(outcome) == IsRaise(outcome) /\ "Timeout" \in Bases(outcome.v)

\* Whether _call_anima_api posts again after an outcome: no except clause
\* does; each sets final_response_text and falls through to the return.
RetryOn(outcome) == FALSE

\* The instance's url, checks, payload builder, backend handler and except
\* clause, by the class it is of.
ApiUrl == IF IsPessoas THEN api_url ELSE weduka_api_url

Early(user_message, body) ==
    IF IsPessoas THEN EarlyReturn(user_message, body)
    ELSE weduka_EarlyReturn(user_message, body)

Build(user_message, messages, body) ==
    IF IsPessoas THEN BuildPayload(user_message, messages, body)
    ELSE weduka_BuildPayload(user_message, messages, body)

\* A handler that keeps the response in a field of the instance: it reads the
\* response an invocation has stored there, whichever invocation it was.
CallApi_SharedResponse(url, outcome) ==
    LET stored == {response[j] : j \in DOMAIN response} \ {PyNone}
        seen   == IF stored = {} THEN outcome ELSE CHOOSE r \in stored : TRUE
    IN  IF IsPessoas THEN _call_anima_api(url, seen)
        ELSE weduka_call_anima_api(url, seen)

CallApi(url, outcome) ==
    IF IsPessoas THEN _call_anima_api(url, outcome) ELSE weduka_call_anima_api(url, outcome)

Except(e) == IF IsPessoas THEN PipeExcept(e) ELSE weduka_PipeExcept(e)

\* The list objects of an invocation as pipe is entered: messages holds the
\* items of the list the caller passed, copy those of the list the invocation
\* has made (none yet), and conversation_messages tells which of the two the
\* local name conversation_messages is bound to.
NewLists(messages) ==
    [messages |-> messages.v, copy |-> <<>>, conversation_messages |-> "messages"]

\* The items of the list conversation_messages is bound to.
Bound(l) == IF l.conversation_messages = "messages" THEN l.messages ELSE l.copy

\* `system_message, conversation_messages = pop_system_message(messages)`:
\* the function returns the list it was given when there is no system message
\* and the new list messages[1:] when there is one.
BindPopped(l, popped) ==
    IF popped.v[1] = PyNone THEN l
    ELSE [l EXCEPT !.copy = popped.v[2], !.conversation_messages = "copy"]

\* The removal done on the list itself (del conversation_messages[-1]).
SliceOffLast_InPlace(l) ==
    IF l.conversation_messages = "messages"
    THEN [l EXCEPT !.messages = SubSeq(@, 1, Len(@) - 1)]
    ELSE [l EXCEPT !.copy = SubSeq(@, 1, Len(@) - 1)]

\* `conversation_messages = conversation_messages[:-1]`: the slice makes a
\* new list and the name is bound to it.
SliceOffLast(l) ==
    [l EXCEPT !.copy = SubSeq(Bound(l), 1, Len(Bound(l)) - 1),
              !.conversation_messages = "copy"]

\* The list objects when pipe has posted its request or returned before it:
\* untouched when a check fails or pop_system_message raises, else as
\* pop_system_message and the removal of a duplicate last turn leave them.
ListsOfPipe(user_message, messages, body) ==
    IF Early(user_message, body) # PyNone THEN NewLists(messages)
    ELSE With(pop_system_message(messages.v), LAMBDA popped :
         IF IsRaise(popped) THEN NewLists(messages)
         ELSE With(IF IsPessoas THEN ConversationMessages(messages.v, user_message)
                   ELSE weduka_ConversationMessages(messages.v, user_message),
                   LAMBDA conversation_messages :
              IF IsRaise(conversation_messages)
                 \/ conversation_messages.v = popped.v[2]
              THEN BindPopped(NewLists(messages), popped)
              ELSE SliceOffLast(BindPopped(NewLists(messages), popped))))

\* pipe up to requests.post: the checks, then the try block up to the call of
\* _call_anima_api. It returns at once on a failed check or an exception.
PipeCall(i, user_message, messages, body) ==
    /\ pc[i] = "idle"
    /\ args' = [args EXCEPT ![i] = [user_message |-> user_message,
                                    messages |-> messages, body |-> body]]
    /\ LET early   == Early(user_message, body)
           payload == Build(user_message, messages, body)
       IN  IF early # PyNone
           THEN /\ result' = [result EXCEPT ![i] = early]
                /\ pc' = [pc EXCEPT ![i] = "returned"]
                /\ UNCHANGED requests
           ELSE IF IsRaise(payload)
           THEN /\ result' = [result EXCEPT ![i] = Except(payload)]
                /\ pc' = [pc EXCEPT ![i] = "returned"]
                /\ UNCHANGED requests
           ELSE /\ requests' = [requests EXCEPT
                                  ![i] = Append(@, [url |-> ApiUrl, json |-> payload])]
                /\ pc' = [pc EXCEPT ![i] = "waiting"]
                /\ UNCHANGED result
    /\ lists' = [lists EXCEPT ![i] = ListsOfPipe(user_message, messages, body)]
    /\ UNCHANGED <<filterVars, bedrockVars, variant, valves, response, citations_data, citations_text,
                 history_messages, history_string, history_log, history_frame>>

\* requests.post ends in outcome; _call_anima_api turns it into text, and pipe
\* returns that text, or the string of its except clause when an exception
\* escapes _call_anima_api.
BackendResponds(i, outcome) ==
    /\ pc[i] = "waiting"
    /\ response' = [response EXCEPT ![i] = outcome]
    /\ IF RetryOn(outcome)
       THEN /\ requests' = [requests EXCEPT ![i] = Append(@, @[Len(@)])]
            /\ UNCHANGED <<pc, result>>
       ELSE LET text == CallApi(requests[i][Len(requests[i])].url, outcome)
            IN  /\ result' = [result EXCEPT
                                ![i] = IF IsRaise(text) THEN Except(text) ELSE text]
                /\ pc' = [pc EXCEPT ![i] = "returned"]
                /\ UNCHANGED requests
    /\ UNCHANGED <<filterVars, bedrockVars, variant, valves, args, lists, citations_data, citations_text,
                 history_messages, history_string, history_log, history_frame>>

\* The host takes the returned value; the invocation is over.
PipeReturn(i) ==
    /\ pc[i] = "returned"
    /\ pc' = [pc EXCEPT ![i] = "idle"]
    /\ args' = [args EXCEPT ![i] = NoArgs]
    /\ requests' = [requests EXCEPT ![i] = <<>>]
    /\ response' = [response EXCEPT ![i] = PyNone]
    /\ result' = [result EXCEPT ![i] = PyNone]
    /\ lists' = [lists EXCEPT ![i] = PyNone]
    /\ UNCHANGED <<filterVars, bedrockVars, variant, valves, citations_data, citations_text,
                 history_messages, history_string, history_log, history_frame>>

\* One invocation at a time on an instance of either class.
Init ==
    /\ \E inst \in Instances : variant = inst.variant /\ valves = inst.valves
    /\ pc = [i \in {1} |-> "idle"]
    /\ args = [i \in {1} |-> NoArgs]
    /\ requests = [i \in {1} |-> <<>>]
    /\ response = [i \in {1} |-> PyNone]
    /\ result = [i \in {1} |-> PyNone]
    /\ lists = [i \in {1} |-> PyNone]
    /\ citations_data = PyNone
    /\ citations_text = PyNone
    /\ history_messages = PyNone
    /\ history_string = PyNone
    /\ history_log = <<>>
    /\ history_frame = PyNone
    /\ BedrockUnused
    /\ FilterUnused

Next ==
    \/ \E i \in DOMAIN pc, user_message \in UserMessages, messages \in MessageLists,
          body \in Bodies :
          PipeCall(i, user_message, messages, body)
    \/ \E i \in DOMAIN pc, outcome \in Outcomes : BackendResponds(i, outcome)
    \/ \E i \in DOMAIN pc : PipeReturn(i)

Spec == Init /\ [][Next]_vars

\* ------------------------------------------------------------------------
\* _format_citations called on its own
\* ------------------------------------------------------------------------

\* Longest citations list given to the formatter.
MaxCitations == 3

\* A name of 46 + 4 = 50 characters, and one of 51.
Name50 == Repeat(<<"a">>, 46) \o <<".","t","x","t">>

Name51 == Repeat(<<"a">>, 47) \o <<".","t","x","t">>

Kb2DocPdf == 
    <<"s","3",":","/","/","k","b","2","/","d","o","c",".","p","d","f">>

\* The records a citations list is made of: plain strings and dict records,
\* names that pass and names that fail either filter, two identifiers with the
\* same basename, a record with several references, a malformed record.
CitationRecords ==
    { PyStr(DocPdf),
      S3Citation(<<PyStr(DocPdf)>>),
      PyStr(Kb2DocPdf),
      PyStr(<<"b",".","P","D","F">>),
      PyStr(RunExe),
      PyStr(Name50),
      PyStr(Name51),
      S3Citation(<<PyNone, PyStr(<<"s","3",":","/","/","k","b","/","Z",".","c","s","v">>), PyStr(<<"s","3",":","/","/","k","b","/","a",".","m","d">>)>>),
      PyStr(<<".","p","d","f">>),
      NullLocationCitation }

\* All sequences over S of length at most n.
SeqsUpTo(S, n) == UNION {[1..k -> S] : k \in 0..n}

\* citations_data values: None, two values that are no list, and every list
\* of at most MaxCitations records.
CitationInputs ==
    {PyNone, PyStr(DocPdf), S3Citation(<<PyStr(DocPdf)>>)}
        \cup {PyList(q) : q \in SeqsUpTo(CitationRecords, MaxCitations)}

\* _format_citations reads no valve: one instance of each class.
CitationInstances ==
    {inst \in Instances : inst.valves.ANIMA_API_BASE_URL = rstrip_slash(inst.valves.ANIMA_API_BASE_URL)}

\* The call self._format_citations(citations_data) on the instance.
FormatCitations ==
    /\ citations_text = PyNone
    /\ citations_text' = IF IsPessoas THEN _format_citations(citations_data)
                         ELSE weduka_format_citations(citations_data)
    /\ UNCHANGED <<filterVars, bedrockVars, variant, valves, pc, args, requests, response, result, lists, citations_data,
                   history_messages, history_string, history_log, history_frame>>

InitCitations ==
    /\ \E inst \in CitationInstances : variant = inst.variant /\ valves = inst.valves
    /\ pc = [i \in {1} |-> "idle"]
    /\ args = [i \in {1} |-> NoArgs]
    /\ requests = [i \in {1} |-> <<>>]
    /\ response = [i \in {1} |-> PyNone]
    /\ result = [i \in {1} |-> PyNone]
    /\ lists = [i \in {1} |-> PyNone]
    /\ citations_data \in CitationInputs
    /\ citations_text = PyNone
    /\ history_messages = PyNone
    /\ history_string = PyNone
    /\ history_log = <<>>
    /\ history_frame = PyNone
    /\ BedrockUnused
    /\ FilterUnused

NextCitations == FormatCitations

SpecCitations == InitCitations /\ [][NextCitations]_vars

\* ------------------------------------------------------------------------
\* _format_history_string called on its own
\* ------------------------------------------------------------------------

\* Longest conversation given to the formatter.
MaxTurns == 3

\* A text that is a citation block and nothing else.
SourcesOnly == sources_marker \o <<"\n","1","."," ","d","o","c",".","p","d","f">>

\* A text with whitespace before the marker and a second marker after it.
TwoBlocks == <<"S","i","m","."," ">> \o sources_marker \o <<"\n","1","."," ","a",".","m","d">> \o sources_marker \o <<"\n","1","."," ","b",".","m","d">>

\* A user's text that quotes the marker.
QuotedMarker == <<"V","e","j","a">> \o sources_marker \o <<" ","a","c","i","m","a">>

\* The turns a conversation is made of: str and list contents, texts with
\* surrounding whitespace, assistant texts with one and two citation blocks
\* and with nothing but a block, a user text with the marker, contents with
\* no text, a role that starts with an accented letter and has a capital
\* inside, and an entry that is not a dict.
HistoryTurns ==
    { Turn(RoleUser, PyStr(<<"O","i">>)),
      Turn(RoleUser, PyStr(PaddedQuestion)),
      Turn(RoleAssistant, PyStr(AnswerWithSources)),
      Turn(RoleAssistant, PyStr(SourcesOnly)),
      Turn(RoleAssistant, PyStr(TwoBlocks)),
      Turn(RoleAssistant, PyStr(<<"D","e","p","e","n","d","e","."," ">>)),
      Turn(RoleUser, PyStr(QuotedMarker)),
      Turn(RoleUser, PyStr(<<>>)),
      Turn(RoleUser, PyInt(5)),
      Turn(RoleUser, PyList(<<ImagePart>>)),
      Turn(RoleUser, PyList(<<TextPart(<<>>)>>)),
      Turn(RoleUser, PyList(<<TextPart(<<"O","i">>), ImagePart, TextPart(Question)>>)),
      Turn(<<"é","X","y">>, PyStr(<<"O","i">>)),
      PyStr(<<"o","i">>) }

\* history_messages values: every conversation of at most MaxTurns turns.
HistoryInputs == {PyList(q) : q \in SeqsUpTo(HistoryTurns, MaxTurns)}

\* self._format_history_string of the instance's class.
FormatHistoryString(turns) ==
    IF IsPessoas THEN _format_history_string(turns)
    ELSE weduka_format_history_string(turns)

\* A loop body that stores the text it shows back into the turn
\* (msg["content"] = content_text).
TurnAfterLine_StoreText(msg) ==
    IF isinstance(msg, "dict") /\ "content" \in DOMAIN msg.v
       /\ isinstance(msg.v["content"], "str")
    THEN PyDict([msg.v EXCEPT !["content"] =
                    IF msg.v["role"] = PyStr(RoleAssistant)
                    THEN PyStr(rstrip(split_first(@.v, sources_marker)))
                    ELSE PyStr(strip(@.v))])
    ELSE msg

\* The turn msg after one pass of the loop: the loop body of either file
\* reads msg with .get and assigns only its own locals (role, content,
\* content_text, text_parts), so the turn is as it was.
TurnAfterLine(msg) == msg

\* The items of the list after a call of the formatter: the loop iterates
\* the list and neither file adds, removes or replaces an item.
AfterFormat(turns) == [k \in 1..Len(turns) |-> TurnAfterLine(turns[k])]

\* The call self._format_history_string(history_messages) on the instance,
\* taken as a whole.
FormatHistory ==
    /\ history_string = PyNone
    /\ history_string' = FormatHistoryString(history_messages.v)
    /\ history_messages' = PyList(AfterFormat(history_messages.v))
    /\ history_log' = Append(history_log,
                             [given |-> history_messages.v,
                              returned |-> FormatHistoryString(history_messages.v)])
    /\ UNCHANGED <<filterVars, bedrockVars, variant, valves, pc, args, requests, response, result, lists, citations_data,
                   citations_text, history_frame>>

InitHistory ==
    /\ \E inst \in CitationInstances : variant = inst.variant /\ valves = inst.valves
    /\ pc = [i \in {1} |-> "idle"]
    /\ args = [i \in {1} |-> NoArgs]
    /\ requests = [i \in {1} |-> <<>>]
    /\ response = [i \in {1} |-> PyNone]
    /\ result = [i \in {1} |-> PyNone]
    /\ lists = [i \in {1} |-> PyNone]
    /\ citations_data = PyNone
    /\ citations_text = PyNone
    /\ history_messages \in HistoryInputs
    /\ history_string = PyNone
    /\ history_log = <<>>
    /\ history_frame = PyNone
    /\ BedrockUnused
    /\ FilterUnused

NextHistory == FormatHistory

SpecHistory == InitHistory /\ [][NextHistory]_vars

\* ------------------------------------------------------------------------
\* _format_history_string called again and again on one list, pass by pass
\* ------------------------------------------------------------------------

\* The calls made on one list.
MaxFormatCalls == 2

\* An accumulator that outlives the call (a default argument or a field of
\* the instance, made once): a call starts with the lines of the transcript
\* the call before it returned.
NewAccumulator_Carried(calls) ==
    IF calls = <<>> \/ IsRaise(calls[Len(calls)].returned)
    THEN IF IsPessoas THEN PyList(<<>>) ELSE PyStr(<<>>)
    ELSE IF IsPessoas THEN PyList(<<calls[Len(calls)].returned.v>>)
    ELSE PyStr(calls[Len(calls)].returned.v \o <<"\n">>)

\* The accumulator a call starts with, whatever the calls before it were:
\* the local history_parts = [] of PessoasCulturaESG2.py, the local
\* history_str = "" of weduka2.py.
NewAccumulator(calls) ==
    IF IsPessoas THEN PyList(<<>>) ELSE PyStr(<<>>)

\* The loop body of the instance's class on msg: the line the pass makes,
\* PyNone (PessoasCulturaESG2.py) or '' (weduka2.py) for a turn it skips, or
\* the exception it raises.
LoopLine(msg) ==
    IF IsPessoas THEN HistoryLine(msg) ELSE weduka_HistoryLine(msg)

\* The accumulator after a pass that made line: history_parts.append(line)
\* unless the turn was skipped, history_str += line.
Accumulated(accumulator, line) ==
    IF IsPessoas
    THEN IF line = PyNone THEN accumulator
         ELSE PyList(Append(accumulator.v, line.v))
    ELSE PyStr(accumulator.v \o line.v)

\* The value returned after the loop: "\n".join(history_parts),
\* history_str.strip().
ReturnedTranscript(accumulator) ==
    IF IsPessoas THEN PyStr(join(<<"\n">>, accumulator.v))
    ELSE PyStr(strip(accumulator.v))

\* self._format_history_string(history_messages) is called: the statements
\* before the loop give the call its locals, which are what the list holds,
\* the position of the loop and the accumulator.
FormatHistoryCall ==
    /\ history_frame = PyNone
    /\ Len(history_log) < MaxFormatCalls
    /\ history_frame' = [given |-> history_messages.v,
                         msg_index |-> 1,
                         accumulator |-> NewAccumulator(history_log)]
    /\ UNCHANGED <<filterVars, bedrockVars, variant, valves, pc, args, requests, response, result, lists, citations_data,
                   citations_text, history_messages, history_string, history_log>>

\* One pass of `for msg in history_messages`, on the item the list holds at
\* the loop's position: the pass adds its line to the accumulator, or raises
\* and ends the call.
FormatHistoryPass ==
    /\ history_frame # PyNone
    /\ history_frame.msg_index <= Len(history_messages.v)
    /\ history_messages' =
           PyList([history_messages.v EXCEPT ![history_frame.msg_index] = TurnAfterLine(@)])
    /\ IF IsRaise(LoopLine(history_messages.v[history_frame.msg_index]))
       THEN /\ history_frame' = PyNone
            /\ history_log' = Append(history_log,
                   [given |-> history_frame.given,
                    returned |-> LoopLine(history_messages.v[history_frame.msg_index])])
       ELSE /\ history_frame' =
                   [history_frame EXCEPT
                       !.msg_index = @ + 1,
                       !.accumulator = Accumulated(@, LoopLine(history_messages.v[history_frame.msg_index]))]
            /\ UNCHANGED history_log
    /\ UNCHANGED <<filterVars, bedrockVars, variant, valves, pc, args, requests, response, result, lists, citations_data,
                   citations_text, history_string>>

\* The loop has passed the last item of the list: the return statement.
FormatHistoryReturn ==
    /\ history_frame # PyNone
    /\ history_frame.msg_index > Len(history_messages.v)
    /\ history_frame' = PyNone
    /\ history_log' = Append(history_log,
           [given |-> history_frame.given,
            returned |-> ReturnedTranscript(history_frame.accumulator)])
    /\ UNCHANGED <<filterVars, bedrockVars, variant, valves, pc, args, requests, response, result, lists, citations_data,
                   citations_text, history_messages, history_string>>

NextHistoryCalls == FormatHistoryCall \/ FormatHistoryPass \/ FormatHistoryReturn

SpecHistoryCalls == InitHistory /\ [][NextHistoryCalls]_vars

\* ------------------------------------------------------------------------
\* Several invocations of pipe on one instance
\*
\* The host calls pipe from several threads on the one Pipeline object. Every
\* name pipe and _call_anima_api assign is a local of the call; self.valves and
\* the fields set by __init__ are only read. The invocations share variant
\* and valves, and each has its own pc, args, requests, response and result.
\* ------------------------------------------------------------------------

\* Invocations that can be under way at once.
MaxInvocations == 2

\* Calls of pipe: one that fails a check, one that raises while the prompt is
\* built, two that post a request (with and without a conversation).
ConcurrentCalls ==
    { [user_message |-> PyStr(<<>>), messages |-> PyList(<<>>), body |-> EmptyDict],
      [user_message |-> PyStr(Question), messages |-> PyList(<<PyStr(<<"o","i">>)>>),
       body |-> PyDict([user |-> PyDict([name |-> PyStr(UserAna)])])],
      [user_message |-> PyStr(Question), messages |-> PyList(<<>>),
       body |-> PyDict([user |-> PyDict([name |-> PyStr(UserAna)])])],
      [user_message |-> PyStr(PaddedQuestion),
       messages |-> PyList(<<Turn(RoleUser, PyStr(<<"O","i">>)),
                             Turn(RoleAssistant, PyStr(AnswerWithSources)),
                             Turn(RoleUser, PyList(<<TextPart(Question)>>))>>),
       body |-> PyDict([user |-> PyDict([name |-> PyStr(UserAna)]),
                        user_id |-> PyStr(UserId7)])] }

\* Outcomes of the backend: a timeout, an error status, an answer with a
\* citation, an answer the backend has no information for.
ConcurrentOutcomes ==
    {o \in PostErrors : o.v = "ReadTimeout"}
    \cup {Response(500, JsonBody(PyDict([detail |-> PyStr(<<"b","a","d">>)]))),
          Response(200, JsonBody(PyDict([outputText |-> PyStr(Answer),
                                         citations |-> PyList(<<PyStr(DocPdf)>>)]))),
          Response(200, JsonBody(PyDict([outputText |-> PyStr(not_found_indicator),
                                         citations |-> PyList(<<PyStr(DocPdf)>>)])))}

\* MaxInvocations threads of the host on one instance, none inside pipe yet.
InitConcurrent ==
    /\ \E inst \in CitationInstances : variant = inst.variant /\ valves = inst.valves
    /\ pc = [i \in 1..MaxInvocations |-> "idle"]
    /\ args = [i \in 1..MaxInvocations |-> NoArgs]
    /\ requests = [i \in 1..MaxInvocations |-> <<>>]
    /\ response = [i \in 1..MaxInvocations |-> PyNone]
    /\ result = [i \in 1..MaxInvocations |-> PyNone]
    /\ lists = [i \in 1..MaxInvocations |-> PyNone]
    /\ citations_data = PyNone
    /\ citations_text = PyNone
    /\ history_messages = PyNone
    /\ history_string = PyNone
    /\ history_log = <<>>
    /\ history_frame = PyNone
    /\ BedrockUnused
    /\ FilterUnused

\* Any invocation takes its next step, whatever the others are doing.
NextConcurrent ==
    \/ \E i \in DOMAIN pc, call \in ConcurrentCalls :
          PipeCall(i, call.user_message, call.messages, call.body)
    \/ \E i \in DOMAIN pc, outcome \in ConcurrentOutcomes : BackendResponds(i, outcome)
    \/ \E i \in DOMAIN pc : PipeReturn(i)

SpecConcurrent == InitConcurrent /\ [][NextConcurrent]_vars

\* ------------------------------------------------------------------------
\* The Bedrock pipeline (code2.py)
\*
\* One Pipeline object serves the calls of every conversation of the host,
\* on the host's threads. self.session_id is a field of the object, and pipe
\* and get_completion read and write it without a lock: a call is a sequence
\* of steps with one access to the field each, and the steps of two calls
\* interleave. The steps of a call are the test of line 78 (BedrockPipe),
\* the assignment of line 80 (BedrockLine80), the test of line 101
\* (BedrockLine101), the read of line 102 (BedrockLine102), the return of
\* retrieve_and_generate with the read of line 125 (BedrockResponds) and
\* the assignment of line 125 (BedrockCompletes). The result of
\* pop_system_message (line 69) is not used by the rest of pipe.
\* ------------------------------------------------------------------------

\* Conversations of the host that the one instance serves.
Conversations == {"A", "B"}

\* Calls of pipe made in a behaviour.
MaxBedrockCalls == 2

\* self.valves of code2.py with its defaults and a knowledge base.
BedrockValves ==
    [AWS_REGION_NAME |-> <<"u","s","-","e","a","s","t","-","1">>,
     KNOWLEDGE_BASE_ID |-> <<"K","B","1">>,
     BEDROCK_MODEL_ID |-> 
    <<"a","n","t","h","r","o","p","i","c",".","c","l","a","u","d","e","-",
      "3","-","h","a","i","k","u","-","2","0","2","4","0","3","0","7","-",
      "v","1",":","0">>,
     DEFAULT_NUMBER_OF_RESULTS |-> 3,
     DEFAULT_PROMPT_TEMPLATE |-> <<>>]

\* The session id a conversation's host puts in its bodies.
SuppliedId(c) == <<"s", "-", c>>

\* The session id the backend makes for a request of conversation c that
\* it does not answer under the id it was sent.
GeneratedId(c) == <<"g", "-", c>>

\* "Nenhuma consulta fornecida." (line 66)
NoQueryText == 
    <<"N","e","n","h","u","m","a"," ","c","o","n","s","u","l","t","a"," ",
      "f","o","r","n","e","c","i","d","a",".">>

\* The text returned when the response has no output.text (line 131).
NoTextText == 
    <<"N","e","n","h","u","m","a"," ","r","e","s","p","o","s","t","a"," ",
      "g","e","r","a","d","a"," ","o","u"," ","c","a","m","p","o"," ","'",
      "t","e","x","t","'"," ","a","u","s","e","n","t","e",".">>

\* f"Erro: {e}" (lines 117 and 135)
ErroText(e) == <<"E","r","r","o",":"," ">> \o e.msg

\* Line 78 with the body read on every call.
ReadsBody_Always(stored) == TRUE

\* Line 78: `if not self.session_id`, on the value read from the field.
ReadsBody(stored) == ~Truthy(stored)

\* knowledgeBaseConfiguration of the payload (lines 88-96, 105-110).
knowledgeBaseConfiguration(body) ==
    With([knowledgeBaseId |-> PyStr(valves.KNOWLEDGE_BASE_ID),
          modelArn |-> PyStr(
    <<"a","r","n",":","a","w","s",":","b","e","d","r","o","c","k",":">> \o valves.AWS_REGION_NAME
                             \o 
    <<":",":","f","o","u","n","d","a","t","i","o","n","-","m","o","d","e",
      "l","/">> \o valves.BEDROCK_MODEL_ID),
          retrievalConfiguration |-> PyDict([vectorSearchConfiguration |->
              PyDict([numberOfResults |->
                  get(body, "numberOfResults", PyInt(valves.DEFAULT_NUMBER_OF_RESULTS))])])],
         LAMBDA config :
         With(get(body, "promptTemplate", PyStr(valves.DEFAULT_PROMPT_TEMPLATE)),
              LAMBDA prompt_template :
              IF Truthy(prompt_template)
              THEN PyDict(config @@ ("generationConfiguration" :>
                       PyDict([promptTemplate |->
                           PyDict([textPromptTemplate |-> prompt_template])])))
              ELSE PyDict(config)))

\* The payload of lines 84-98 and 105-110.
bedrock_payload(user_message, body) ==
    PyDict([input |-> PyDict([text |-> user_message]),
            retrieveAndGenerateConfiguration |->
                PyDict([type |-> PyStr(<<"K","N","O","W","L","E","D","G","E","_","B","A","S","E">>),
                        knowledgeBaseConfiguration |-> knowledgeBaseConfiguration(body)])])

\* Line 102: payload["sessionId"] = self.session_id, on the value read.
WithSessionId(payload, stored) == PyDict(payload.v @@ ("sessionId" :> stored))

\* Line 125: response.get('sessionId', self.session_id), the second
\* argument being the value read from the field before the call of get.
SessionIdFromResponse(default, bedrock_response) ==
    get(bedrock_response, "sessionId", default)

\* What get_completion returns (lines 119-135).
get_completion(bedrock_response) ==
    IF IsRaise(bedrock_response) THEN PyStr(ErroText(bedrock_response))
    ELSE IF "output" \in DOMAIN bedrock_response.v
            /\ "text" \in DOMAIN bedrock_response.v["output"].v
    THEN bedrock_response.v["output"].v["text"]
    ELSE PyStr(NoTextText)

\* An entry of session_log.
SessionEvent(op, c, user_message, body, payload, bedrock_response, returned) ==
    [op |-> op, conversation |-> c, user_message |-> user_message, body |-> body,
     payload |-> payload, response |-> bedrock_response, result |-> returned]

\* The frame of a call of pipe: the line it is at, its arguments, the
\* payload it sent, the response it got and the value it read for line 125.
Frame(at, user_message, body, payload, bedrock_response, default) ==
    [pc |-> at, user_message |-> user_message, body |-> body, payload |-> payload,
     response |-> bedrock_response, default |-> default]

\* Conversation c's call is at the given line.
At(c, line) == in_flight[c] # PyNone /\ in_flight[c].pc = line

\* The number of calls of pipe made so far: those that returned at line 66
\* or sent their request, and those on the way to their request.
CallsMade ==
    Cardinality({k \in DOMAIN session_log : session_log[k].op = "pipe"})
    + Cardinality({c \in DOMAIN in_flight :
                     At(c, "line 80") \/ At(c, "line 101") \/ At(c, "line 102")})

\* The request is sent: the call of retrieve_and_generate at line 122.
Send(c, payload) ==
    /\ in_flight' = [in_flight EXCEPT ![c] =
           Frame("waiting", in_flight[c].user_message, in_flight[c].body, payload,
                 PyNone, PyNone)]
    /\ session_log' = Append(session_log,
           SessionEvent("pipe", c, in_flight[c].user_message, in_flight[c].body, payload,
                        PyNone, PyNone))

\* pipe(user_message, model_id, messages, body) called for conversation c,
\* up to the return of line 66 or the test of line 78.
BedrockPipe(c, user_message, body) ==
    /\ in_flight[c] = PyNone
    /\ CallsMade < MaxBedrockCalls
    /\ IF ~Truthy(user_message)
       THEN /\ UNCHANGED in_flight
            /\ session_log' = Append(session_log,
                   SessionEvent("pipe", c, user_message, body, PyNone, PyNone,
                                PyStr(NoQueryText)))
       ELSE /\ in_flight' = [in_flight EXCEPT ![c] =
                   Frame(IF ReadsBody(session_id) THEN "line 80" ELSE "line 101",
                         user_message, body, PyNone, PyNone, PyNone)]
            /\ UNCHANGED session_log
    /\ UNCHANGED session_id
    /\ UNCHANGED <<variant, valves, animaVars, filterVars>>

\* Line 80: self.session_id = body.get("sessionId").
BedrockLine80(c) ==
    /\ At(c, "line 80")
    /\ session_id' = get(in_flight[c].body, "sessionId", PyNone)
    /\ in_flight' = [in_flight EXCEPT ![c].pc = "line 101"]
    /\ UNCHANGED session_log
    /\ UNCHANGED <<variant, valves, animaVars, filterVars>>

\* Line 101: `if self.session_id`; when it is not taken, lines 105-122.
BedrockLine101(c) ==
    /\ At(c, "line 101")
    /\ IF Truthy(session_id)
       THEN /\ in_flight' = [in_flight EXCEPT ![c].pc = "line 102"]
            /\ UNCHANGED session_log
       ELSE Send(c, bedrock_payload(in_flight[c].user_message, in_flight[c].body))
    /\ UNCHANGED session_id
    /\ UNCHANGED <<variant, valves, animaVars, filterVars>>

\* Line 102: payload["sessionId"] = self.session_id, then lines 105-122.
BedrockLine102(c) ==
    /\ At(c, "line 102")
    /\ Send(c, WithSessionId(bedrock_payload(in_flight[c].user_message, in_flight[c].body),
                             session_id))
    /\ UNCHANGED session_id
    /\ UNCHANGED <<variant, valves, animaVars, filterVars>>

\* retrieve_and_generate raises, and get_completion and pipe return
\* (lines 133-135); or it returns, and line 125 reads self.session_id.
BedrockResponds(c, bedrock_response) ==
    /\ At(c, "waiting")
    /\ IF IsRaise(bedrock_response)
       THEN /\ in_flight' = [in_flight EXCEPT ![c] = PyNone]
            /\ session_log' = Append(session_log,
                   SessionEvent("get_completion", c, PyNone, PyNone, in_flight[c].payload,
                                bedrock_response, get_completion(bedrock_response)))
       ELSE /\ in_flight' = [in_flight EXCEPT ![c] =
                   Frame("line 125", in_flight[c].user_message, in_flight[c].body,
                         in_flight[c].payload, bedrock_response, session_id)]
            /\ UNCHANGED session_log
    /\ UNCHANGED session_id
    /\ UNCHANGED <<variant, valves, animaVars, filterVars>>

\* Line 125 assigns self.session_id, and get_completion and pipe return.
BedrockCompletes(c) ==
    /\ At(c, "line 125")
    /\ session_id' = SessionIdFromResponse(in_flight[c].default, in_flight[c].response)
    /\ in_flight' = [in_flight EXCEPT ![c] = PyNone]
    /\ session_log' = Append(session_log,
           SessionEvent("get_completion", c, PyNone, PyNone, in_flight[c].payload,
                        in_flight[c].response, get_completion(in_flight[c].response)))
    /\ UNCHANGED <<variant, valves, animaVars, filterVars>>

\* Bodies the host of conversation c sends: without a session id, with the
\* conversation's id, with an empty id, and with the id and the two settings.
BedrockBodies(c) ==
    { EmptyDict,
      PyDict([sessionId |-> PyStr(SuppliedId(c))]),
      PyDict([sessionId |-> PyStr(<<>>)]),
      PyDict([sessionId |-> PyStr(SuppliedId(c)), numberOfResults |-> PyInt(5),
              promptTemplate |-> PyStr(
    <<"R","e","s","p","o","n","d","a",":"," ","$","s","e","a","r","c","h",
      "_","r","e","s","u","l","t","s","$">>)]) }

\* Calls of pipe for conversation c: without a query, and with one.
BedrockCalls(c) ==
    { [user_message |-> PyStr(<<>>), body |-> PyDict([sessionId |-> PyStr(SuppliedId(c))])] }
    \cup { [user_message |-> PyStr(Question), body |-> b] : b \in BedrockBodies(c) }

\* The session ids a response to the payload may carry: the one sent, or
\* one the backend made.
ResponseIds(c, payload) ==
    {PyStr(GeneratedId(c))}
    \cup (IF /\ isinstance(payload, "dict")
              /\ "sessionId" \in DOMAIN payload.v
              /\ Truthy(payload.v["sessionId"])
           THEN {payload.v["sessionId"]} ELSE {})

\* Outcomes of retrieve_and_generate for conversation c's payload: an
\* exception, an answer with a session id, an answer without one, and a
\* response without output text.
BedrockOutcomes(c, payload) ==
    { Raise("ClientError", 
    <<"T","h","r","o","t","t","l","i","n","g","E","x","c","e","p","t","i",
      "o","n">>),
      PyDict([output |-> PyDict([text |-> PyStr(Answer)])]) }
    \cup { PyDict([sessionId |-> id, output |-> PyDict([text |-> PyStr(Answer)])]) :
             id \in ResponseIds(c, payload) }
    \cup { PyDict([sessionId |-> PyStr(GeneratedId(c)), output |-> EmptyDict]) }

\* No Anima pipeline is part of the behaviour.
AnimaUnused ==
    /\ pc = [i \in {1} |-> "idle"]
    /\ args = [i \in {1} |-> NoArgs]
    /\ requests = [i \in {1} |-> <<>>]
    /\ response = [i \in {1} |-> PyNone]
    /\ result = [i \in {1} |-> PyNone]
    /\ lists = [i \in {1} |-> PyNone]
    /\ citations_data = PyNone
    /\ citations_text = PyNone
    /\ history_messages = PyNone
    /\ history_string = PyNone
    /\ history_log = <<>>
    /\ history_frame = PyNone

\* The instance after __init__ (lines 31-55), no call under way.
InitBedrock ==
    /\ variant = "code2"
    /\ valves = BedrockValves
    /\ AnimaUnused
    /\ FilterUnused
    /\ session_id = PyNone
    /\ in_flight = [c \in Conversations |-> PyNone]
    /\ session_log = <<>>

\* The payload conversation c's call has sent, None when it has sent none.
PayloadOf(c) == IF in_flight[c] = PyNone THEN PyNone ELSE in_flight[c].payload

\* The calls of the conversations overlap: any call takes its next step.
NextBedrock ==
    \/ \E c \in Conversations :
          \E call \in BedrockCalls(c) : BedrockPipe(c, call.user_message, call.body)
    \/ \E c \in Conversations : BedrockLine80(c)
    \/ \E c \in Conversations : BedrockLine101(c)
    \/ \E c \in Conversations : BedrockLine102(c)
    \/ \E c \in Conversations :
          \E outcome \in BedrockOutcomes(c, PayloadOf(c)) : BedrockResponds(c, outcome)
    \/ \E c \in Conversations : BedrockCompletes(c)

SpecBedrock == InitBedrock /\ [][NextBedrock]_vars

\* No call of another conversation is under way.
Alone(c) == \A d \in Conversations \ {c} : in_flight[d] = PyNone

\* The calls come one after the other: a call begins when the one before
\* it has returned.
NextBedrockInTurn ==
    \/ \E c \in Conversations :
          Alone(c)
          /\ \E call \in BedrockCalls(c) : BedrockPipe(c, call.user_message, call.body)
    \/ \E c \in Conversations : Alone(c) /\ BedrockLine80(c)
    \/ \E c \in Conversations : Alone(c) /\ BedrockLine101(c)
    \/ \E c \in Conversations : Alone(c) /\ BedrockLine102(c)
    \/ \E c \in Conversations :
          Alone(c)
          /\ \E outcome \in BedrockOutcomes(c, PayloadOf(c)) : BedrockResponds(c, outcome)
    \/ \E c \in Conversations : Alone(c) /\ BedrockCompletes(c)

SpecBedrockInTurn == InitBedrock /\ [][NextBedrockInTurn]_vars

\* ------------------------------------------------------------------------
\* The Langfuse filter (langfuse_filter_pipeline.py)
\*
\* The host calls inlet before a chat request goes to the model and outlet
\* after the answer. Both are coroutines without an await: each call runs
\* from its first line to its return or exception before another begins.
\* chat_traces and chat_generations are the two dicts of the instance, as
\* functions from key to the Langfuse object stored under it.
\* ------------------------------------------------------------------------

\* Calls of inlet and outlet made in a behaviour.
MaxFilterCalls == 4

\* self.valves after __init__ with no environment variable set (lines 38-45).
FilterValves ==
    [pipelines |-> <<"*">>, priority |-> 0,
     secret_key |-> 
    <<"y","o","u","r","-","s","e","c","r","e","t","-","k","e","y","-","h",
      "e","r","e">>,
     public_key |-> 
    <<"y","o","u","r","-","p","u","b","l","i","c","-","k","e","y","-","h",
      "e","r","e">>,
     host |-> 
    <<"h","t","t","p","s",":","/","/","c","l","o","u","d",".","l","a","n",
      "g","f","u","s","e",".","c","o","m">>]

\* The Langfuse(...) object of set_langfuse.
LangfuseClient == [t |-> "Langfuse", v |-> 0]

\* The dict {} of lines 47-48.
NoEntries == [key \in {} |-> PyNone]

\* d[key] = value
SetItem(d, key, value) == (key :> value) @@ d

\* d.pop(key, None) as a statement: d without key.
PopItem(d, key) == [k \in DOMAIN d \ {key} |-> d[k]]

\* a or b
Or(a, b) == IF Truthy(a) THEN a ELSE b

\* f"webui-{x}"
webui(x) == <<"w","e","b","u","i","-">> \o str(x)

\* str(uuid.uuid4()) of the n-th call of inlet: a value no other call gets.
uuid4(n) == <<"u">> \o str_int(n)

\* The calls of inlet made so far.
InletCalls == Cardinality({k \in DOMAIN filter_log : filter_log[k].op = "inlet"})

\* Line 81: the value body.pop("chat_id", f"webui-{uuid.uuid4()}") returns.
inlet_chat_id(body) ==
    IF "chat_id" \in DOMAIN body.v THEN body.v["chat_id"].v ELSE webui(PyStr(uuid4(InletCalls + 1)))

\* Line 81: body after the pop.
WithoutChatId(body) == PyDict(PopItem(body.v, "chat_id"))

\* Lines 84-85: the required keys that body lacks, in the order of required_keys.
missing(body) ==
    SelectSeq(<<"model", "messages">>, LAMBDA key : key \notin DOMAIN body.v)

\* A key of required_keys as text.
RequiredKeyText(key) ==
    IF key = "model" THEN <<"m","o","d","e","l">>
    ELSE <<"m","e","s","s","a","g","e","s">>

\* Line 86: ValueError(f"Missing keys: {', '.join(missing)}")
MissingKeysError(body) ==
    Raise("ValueError",
          <<"M","i","s","s","i","n","g"," ","k","e","y","s",":"," ">>
          \o join(<<",", " ">>, [k \in 1..Len(missing(body)) |-> RequiredKeyText(missing(body)[k])]))

\* Lines 90-99: the trace that self.langfuse.trace(...) returns.
Trace(langfuse_chat_id, body, user) ==
    [t |-> "trace",
     name |-> <<"o","p","e","n","w","e","b","u","i","-","c","h","a","t">>,
     input |-> body,
     user_id |-> get(user, "email", PyStr(<<"a","n","o","n","y","m","o","u","s">>)),
     metadata |-> PyDict([user_name |-> get(user, "name", PyStr(<<"u","n","k","n","o","w","n">>)),
                          user_id |-> get(user, "id", PyStr(<<"u","n","k","n","o","w","n">>))]),
     session_id |-> langfuse_chat_id]

\* Lines 102-110: the generation that trace.generation(...) returns.
Generation(langfuse_chat_id, body) ==
    [t |-> "generation",
     name |-> body.v["model"],
     model |-> body.v["model"],
     input |-> body.v["messages"],
     metadata |-> PyDict([interface |-> PyStr(<<"o","p","e","n","-","w","e","b","u","i">>),
                          webui_chat_id |-> PyStr(langfuse_chat_id)])]

\* The try block of inlet taking the client for set.
InletException_ClientAssumed(user, outcome) ==
    IF ~isinstance(user, "dict") THEN NoAttribute(user, <<"g","e","t">>)
    ELSE IF outcome = "trace raises" THEN Raise("Exception", <<"t","r","a","c","e"," ","f","a","i","l","e","d">>)
    ELSE IF outcome = "generation raises"
    THEN Raise("Exception", <<"g","e","n","e","r","a","t","i","o","n"," ","f","a","i","l","e","d">>)
    ELSE PyNone

\* The exception that ends the try block of inlet (lines 88-114), or None
\* when the block runs to its end: the attribute lookup on an unset client,
\* user.get on a user that is not a dict, or a failure of one of the two calls.
InletException(user, outcome) ==
    IF langfuse = PyNone THEN NoAttribute(PyNone, <<"t","r","a","c","e">>)
    ELSE IF ~isinstance(user, "dict") THEN NoAttribute(user, <<"g","e","t">>)
    ELSE IF outcome = "trace raises" THEN Raise("Exception", <<"t","r","a","c","e"," ","f","a","i","l","e","d">>)
    ELSE IF outcome = "generation raises" THEN Raise("Exception", 
    <<"g","e","n","e","r","a","t","i","o","n"," ","f","a","i","l","e","d">>)
    ELSE PyNone

\* The outcomes of the Langfuse calls that a call of inlet can meet.
InletOutcomes(body, user) ==
    IF missing(WithoutChatId(body)) = <<>> /\ langfuse # PyNone /\ isinstance(user, "dict")
    THEN {"ok", "trace raises", "generation raises"}
    ELSE {"ok"}

\* chat_traces after inlet, had line 113 been written right after the trace
\* was created.
TracesAfterInlet_BeforeGeneration(traces, langfuse_chat_id, trace, e) ==
    IF e = PyNone \/ e.msg = 
    <<"g","e","n","e","r","a","t","i","o","n"," ","f","a","i","l","e","d">>
    THEN SetItem(traces, langfuse_chat_id, trace)
    ELSE traces

\* chat_traces after the try block of inlet that ended with e (line 113).
TracesAfterInlet(traces, langfuse_chat_id, trace, e) ==
    IF e = PyNone THEN SetItem(traces, langfuse_chat_id, trace) ELSE traces

\* chat_generations after the try block of inlet that ended with e (line 114).
GenerationsAfterInlet(generations, langfuse_chat_id, generation, e) ==
    IF e = PyNone THEN SetItem(generations, langfuse_chat_id, generation) ELSE generations

\* An entry of filter_log: the call, the key it computed, the outcome of the
\* Langfuse calls, what it returned or raised, and the generation it stored
\* (inlet) or ended (outlet), None when it did neither.
FilterEvent(op, body, user, langfuse_chat_id, outcome, returned, generation) ==
    [op |-> op, body |-> body, user |-> user, key |-> langfuse_chat_id,
     outcome |-> outcome, result |-> returned, generation |-> generation]

\* The calls of inlet and outlet made so far.
FilterCalls == Len(filter_log)

\* on_startup and on_valves_updated: set_langfuse (lines 62-75). The field
\* is assigned before auth_check, so it is set unless Langfuse(...) raises.
SetLangfuse(constructed) ==
    /\ langfuse' = IF constructed THEN LangfuseClient ELSE langfuse
    /\ UNCHANGED <<chat_traces, chat_generations, filter_log>>
    /\ UNCHANGED <<variant, valves, animaVars, bedrockVars>>

\* inlet(body, user) (lines 77-119).
Inlet(body, user, outcome) ==
    /\ FilterCalls < MaxFilterCalls
    /\ outcome \in InletOutcomes(body, user)
    /\ With(inlet_chat_id(body), LAMBDA langfuse_chat_id :
       With(WithoutChatId(body), LAMBDA popped :
       IF missing(popped) # <<>>
       THEN /\ UNCHANGED <<chat_traces, chat_generations>>
            /\ filter_log' = Append(filter_log,
                   FilterEvent("inlet", body, user, langfuse_chat_id, outcome,
                               MissingKeysError(popped), PyNone))
       ELSE With(InletException(user, outcome), LAMBDA e :
            /\ chat_traces' = TracesAfterInlet(chat_traces, langfuse_chat_id,
                                  Trace(langfuse_chat_id, popped, user), e)
            /\ chat_generations' = GenerationsAfterInlet(chat_generations, langfuse_chat_id,
                                       Generation(langfuse_chat_id, popped), e)
            /\ filter_log' = Append(filter_log,
                   FilterEvent("inlet", body, user, langfuse_chat_id, outcome, popped,
                               IF e = PyNone THEN Generation(langfuse_chat_id, popped)
                               ELSE PyNone)))))
    /\ UNCHANGED langfuse
    /\ UNCHANGED <<variant, valves, animaVars, bedrockVars>>

\* Line 125: f"webui-{body.get('chat_id', 'unknown')}"
outlet_chat_id(body) == webui(get(body, "chat_id", PyStr(<<"u","n","k","n","o","w","n">>)))

RECURSIVE get_last_assistant_message_obj(_)
\* get_last_assistant_message_obj (lines 20-24)
get_last_assistant_message_obj(messages) ==
    IF messages = <<>> THEN EmptyDict
    ELSE IF messages[Len(messages)].v["role"] = PyStr(RoleAssistant)
    THEN messages[Len(messages)]
    ELSE get_last_assistant_message_obj(SubSeq(messages, 1, Len(messages) - 1))

\* get_last_assistant_message of the host (utils.pipelines.main): the
\* content of the last assistant message.
get_last_assistant_message(messages) ==
    get(get_last_assistant_message_obj(messages), "content", PyNone)

\* Lines 139-146: usage.
usage(assistant_message_obj) ==
    IF Truthy(assistant_message_obj)
       /\ isinstance(get(assistant_message_obj, "info", PyNone), "dict")
    THEN With(assistant_message_obj.v["info"], LAMBDA info :
         PyDict([input |-> Or(get(info, "prompt_eval_count", PyNone),
                              get(info, "prompt_tokens", PyNone)),
                 output |-> Or(get(info, "eval_count", PyNone),
                               get(info, "completion_tokens", PyNone)),
                 unit |-> PyStr(<<"T","O","K","E","N","S">>)]))
    ELSE PyNone

\* The outcomes of the Langfuse calls that a call of outlet can meet.
OutletOutcomes(body) ==
    IF outlet_chat_id(body) \in DOMAIN chat_generations /\ "messages" \in DOMAIN body.v
    THEN {"ok", "update raises", "end raises"}
    ELSE {"ok"}

\* Lines 130-154: the generation as generation.end(...) leaves it, or None
\* when the try block does not get through that call.
EndedGeneration(generation, body, outcome) ==
    IF "messages" \notin DOMAIN body.v \/ outcome # "ok" THEN PyNone
    ELSE [generation EXCEPT
             !.metadata = PyDict([status |-> PyStr(<<"c","o","m","p","l","e","t","e","d">>)])]
         @@ [output |-> get_last_assistant_message(body.v["messages"].v),
             usage |-> usage(get_last_assistant_message_obj(body.v["messages"].v))]

\* outlet(body, user) (lines 121-163).
Outlet(body, user, outcome) ==
    /\ FilterCalls < MaxFilterCalls
    /\ outcome \in OutletOutcomes(body)
    /\ With(outlet_chat_id(body), LAMBDA langfuse_chat_id :
       IF langfuse_chat_id \notin DOMAIN chat_generations
       THEN /\ UNCHANGED <<chat_traces, chat_generations>>
            /\ filter_log' = Append(filter_log,
                   FilterEvent("outlet", body, user, langfuse_chat_id, outcome, body, PyNone))
       ELSE /\ chat_traces' = PopItem(chat_traces, langfuse_chat_id)
            /\ chat_generations' = PopItem(chat_generations, langfuse_chat_id)
            /\ filter_log' = Append(filter_log,
                   FilterEvent("outlet", body, user, langfuse_chat_id, outcome, body,
                               EndedGeneration(chat_generations[langfuse_chat_id],
                                               body, outcome))))
    /\ UNCHANGED langfuse
    /\ UNCHANGED <<variant, valves, animaVars, bedrockVars>>

\* The chat id of the host's conversation.
ChatId == <<"c","1">>

\* The messages of a request, and of the body outlet gets after the answer.
RequestMessages == <<Turn(RoleUser, PyStr(Question))>>

AnsweredMessages ==
    <<Turn(RoleUser, PyStr(Question)),
      PyDict([role |-> PyStr(RoleAssistant), content |-> PyStr(Answer),
              info |-> PyDict([prompt_eval_count |-> PyInt(5), eval_count |-> PyInt(7)])])>>

\* Bodies given to inlet: with and without a chat id, and without one or
\* both of the required keys.
InletBodies ==
    { PyDict([chat_id |-> PyStr(ChatId), model |-> PyStr(<<"l","l","a","m","a","3">>),
              messages |-> PyList(RequestMessages)]),
      PyDict([model |-> PyStr(<<"l","l","a","m","a","3">>), messages |-> PyList(RequestMessages)]),
      PyDict([chat_id |-> PyStr(ChatId), messages |-> PyList(RequestMessages)]),
      PyDict([chat_id |-> PyStr(ChatId)]) }

\* The user argument: the host's user, or the default None.
FilterUsers ==
    { PyDict([email |-> PyStr(<<"a","n","a","@","x",".","o","r","g">>), name |-> PyStr(UserAna), id |-> PyStr(UserId7)]),
      PyNone }

\* Bodies given to outlet: the chat of the inlet bodies, the id made by
\* uuid4 for the first inlet, and no chat id; with and without messages.
OutletBodies ==
    { PyDict([chat_id |-> PyStr(ChatId), messages |-> PyList(AnsweredMessages)]),
      PyDict([chat_id |-> PyStr(uuid4(1)), messages |-> PyList(AnsweredMessages)]),
      PyDict([chat_id |-> PyStr(uuid4(1))]),
      PyDict([messages |-> PyList(AnsweredMessages)]) }

\* The instance after __init__ (lines 35-48).
InitFilter ==
    /\ variant = "langfuse_filter_pipeline"
    /\ valves = FilterValves
    /\ AnimaUnused
    /\ BedrockUnused
    /\ langfuse = PyNone
    /\ chat_traces = NoEntries
    /\ chat_generations = NoEntries
    /\ filter_log = <<>>

NextFilter ==
    \/ \E constructed \in BOOLEAN : SetLangfuse(constructed)
    \/ \E body \in InletBodies, user \in FilterUsers,
          outcome \in {"ok", "trace raises", "generation raises"} : Inlet(body, user, outcome)
    \/ \E body \in OutletBodies, outcome \in {"ok", "update raises", "end raises"} :
          Outlet(body, PyNone, outcome)

SpecFilter == InitFilter /\ [][NextFilter]_vars

\* ------------------------------------------------------------------------
\* Properties of pipe (specification Spec)
\* ------------------------------------------------------------------------

\* The invocations that are under way: called and not yet taken by the host.
Invocations == {i \in DOMAIN pc : pc[i] # "idle"}

\* The invocations that have returned to the host.
ReturnedInvocations == {i \in DOMAIN pc : pc[i] = "returned"}

\* text starts with prefix
startswith(text, prefix) ==
    Len(text) >= Len(prefix) /\ SubSeq(text, 1, Len(prefix)) = prefix

\* C1: pipe never raises to its caller. Whatever user_message, messages and
\* body it is called with and whatever the backend call ends in, what an
\* invocation hands back is a str, never an exception.
C1_PipeNeverRaises ==
    \A i \in DOMAIN pc :
        /\ ~IsRaise(result[i])
        /\ pc[i] = "returned" => isinstance(result[i], "str")

\* An invocation whose _call_anima_api let an exception escape (the decode
\* error of an error body that `except json.JSONDecodeError` does not match)
\* and that still returned a str.
C1_Witness ==
    \E i \in ReturnedInvocations :
        /\ response[i] # PyNone
        /\ IsRaise(CallApi(requests[i][1].url, response[i]))
        /\ isinstance(result[i], "str")

\* C2: with an empty user_message pipe returns the fixed string 'Erro:
\* Nenhuma mensagem de usuário fornecida.' and posts no request, whatever
\* messages and body hold.
C2_EmptyMessageReturnsError ==
    \A i \in Invocations :
        args[i].user_message = PyStr(<<>>)
        => /\ pc[i] = "returned"
           /\ result[i] = NoUserMessageError
           /\ requests[i] = <<>>

\* An invocation with an empty user_message, a conversation and a user id
\* that has returned.
C2_Witness ==
    \E i \in ReturnedInvocations :
        /\ args[i].user_message = PyStr(<<>>)
        /\ args[i].messages.v # <<>>
        /\ "user" \in DOMAIN args[i].body.v
        /\ result[i] = NoUserMessageError

\* body["user"]["name"] when body["user"] is a dict that has it, else None.
C3_Name(body) ==
    IF "user" \in DOMAIN body.v /\ body.v["user"].t = "dict"
       /\ "name" \in DOMAIN body.v["user"].v
    THEN body.v["user"].v["name"]
    ELSE PyNone

\* body["user_id"] when body has it, else None.
C3_UserIdField(body) == IF "user_id" \in DOMAIN body.v THEN body.v["user_id"] ELSE PyNone

\* The user identifier of a request: user.name when it is non-empty, else
\* user_id.
C3_Identifier(body) ==
    IF Truthy(C3_Name(body)) THEN C3_Name(body) ELSE C3_UserIdField(body)

\* The fixed missing-user-id string of the instance's class.
C3_MissingIdError == IF IsPessoas THEN NoUserIdError ELSE weduka_NoUserIdError

\* C3: with a non-empty user_message, when neither body.user.name nor
\* body.user_id is a non-empty identifier pipe returns the fixed
\* missing-user-id string and posts no request; when one is present pipe goes
\* on: it does not return that string, it posts its request once prompt
\* building succeeds, and every request carries str() of the identifier,
\* user.name taking precedence over user_id.
C3_UserIdentifier ==
    \A i \in Invocations :
        Truthy(args[i].user_message)
        => IF ~Truthy(C3_Identifier(args[i].body))
           THEN /\ pc[i] = "returned"
                /\ result[i] = C3_MissingIdError
                /\ requests[i] = <<>>
           ELSE /\ result[i] # C3_MissingIdError
                /\ \A k \in 1..Len(requests[i]) :
                       requests[i][k].json.v["userId"]
                           = PyStr(str(C3_Identifier(args[i].body)))
                /\ ~IsRaise(Build(args[i].user_message, args[i].messages, args[i].body))
                   => Len(requests[i]) = 1

\* A request posted for a body that has both a user.name and a different
\* user_id: it carries the name.
C3_Witness ==
    \E i \in Invocations :
        /\ Truthy(C3_Name(args[i].body))
        /\ Truthy(C3_UserIdField(args[i].body))
        /\ C3_Name(args[i].body) # C3_UserIdField(args[i].body)
        /\ Len(requests[i]) = 1
        /\ requests[i][1].json.v["userId"] = C3_Name(args[i].body)

\* The message check and the user id check of pipe both pass.
C4_ChecksPass(i) ==
    Truthy(args[i].user_message) /\ Truthy(C3_Identifier(args[i].body))

\* C4: an invocation posts at most one request; exactly one when the message
\* and user id checks pass and prompt building succeeds, none otherwise; and
\* once the backend call has ended, in a response or in a failure of any
\* kind, the invocation has returned with that one request: no retry.
C4_OneRequest ==
    \A i \in Invocations :
        /\ Len(requests[i]) <= 1
        /\ Len(requests[i]) = 1
           <=> /\ C4_ChecksPass(i)
               /\ ~IsRaise(Build(args[i].user_message, args[i].messages, args[i].body))
        /\ response[i] # PyNone => pc[i] = "returned" /\ Len(requests[i]) = 1

\* An invocation that has returned after a timeout of its one request.
C4_Witness ==
    \E i \in ReturnedInvocations :
        /\ IsRaise(response[i])
        /\ "Timeout" \in Bases(response[i].v)
        /\ Len(requests[i]) = 1

\* The backend answered invocation i with status 200 and a JSON object whose
\* outputText is a str.
HasOutputText(i) ==
    /\ response[i].t = "response"
    /\ response[i].status = 200
    /\ response[i].body.t = "json"
    /\ isinstance(response[i].body.v, "dict")
    /\ "outputText" \in DOMAIN response[i].body.v.v
    /\ isinstance(response[i].body.v.v["outputText"], "str")

\* The outputText of that answer, as the backend sent it.
OutputTextOf(i) == response[i].body.v.v["outputText"].v

\* The marker of a citation block.
FontesMarker == <<"*","*","F","o","n","t","e","s",":","*","*">>

\* Invocation i of PessoasCulturaESG2's pipe has returned on an answer whose
\* outputText contains the not-found indicator.
C5_IndicatorCase(i) ==
    /\ IsPessoas
    /\ pc[i] = "returned"
    /\ HasOutputText(i)
    /\ contains(OutputTextOf(i), not_found_indicator)

\* C5 as stated: when outputText contains the not-found indicator the result
\* equals outputText exactly, with no citation block.
C5_ResultIsOutputText ==
    \A i \in DOMAIN pc :
        C5_IndicatorCase(i)
        => /\ result[i] = PyStr(OutputTextOf(i))
           /\ ~contains(result[i].v, FontesMarker)

\* C5, amended: when outputText contains the not-found indicator the result
\* of PessoasCulturaESG2's pipe is outputText with its leading and trailing
\* whitespace removed, with no citation block, for every citations list.
C5_ResultIsStrippedOutputText ==
    \A i \in DOMAIN pc :
        C5_IndicatorCase(i)
        => /\ result[i] = PyStr(strip(OutputTextOf(i)))
           /\ ~contains(result[i].v, FontesMarker)

\* An answer that carries the indicator between whitespace, with a non-empty
\* citations list.
C5_Witness ==
    \E i \in DOMAIN pc :
        /\ C5_IndicatorCase(i)
        /\ strip(OutputTextOf(i)) # OutputTextOf(i)
        /\ Truthy(CitationsList(response[i].body.v))

\* '**Fontes:**\n1. doc.pdf'
FontesOnlyDocPdf ==
    <<"*","*","F","o","n","t","e","s",":","*","*","\n","1","."," ","d","o",
      "c",".","p","d","f">>

\* The citation block rendered from the answer's citations.
C6_Block(i) ==
    IF IsPessoas THEN _format_citations(CitationsList(response[i].body.v))
    ELSE weduka_format_citations(CitationsList(response[i].body.v))

\* Invocation i has returned on a successful answer without the indicator
\* whose citations rendered to a block (possibly the empty one).
C6_CombineCase(i) ==
    /\ pc[i] = "returned"
    /\ HasOutputText(i)
    /\ IsPessoas => ~contains(OutputTextOf(i), not_found_indicator)
    /\ isinstance(C6_Block(i), "str")

\* The three-way rule on a text and a block.
C6_Rule(text, block) ==
    IF text # <<>> THEN text \o block
    ELSE IF block # <<>> THEN lstrip(block)
    ELSE IF IsPessoas THEN FallbackText ELSE weduka_FallbackText

\* C6 as stated: the three-way rule applied to outputText as the backend
\* sent it.
C6_RuleOnOutputText ==
    \A i \in DOMAIN pc :
        C6_CombineCase(i) => result[i] = PyStr(C6_Rule(OutputTextOf(i), C6_Block(i).v))

\* C6, amended: the three-way rule applies to outputText with its leading and
\* trailing whitespace removed. A non-empty trimmed text gives that text
\* followed at once by the block (the text alone when the block is empty); an
\* empty one with a block gives the block without its leading whitespace, so
\* the result starts with '**Fontes:**', and is '**Fontes:**\n1. doc.pdf' for
\* the single reference s3://kb/doc.pdf; both empty give the fallback message.
C6_RuleOnStrippedOutputText ==
    \A i \in DOMAIN pc :
        C6_CombineCase(i)
        => /\ result[i] = PyStr(C6_Rule(strip(OutputTextOf(i)), C6_Block(i).v))
           /\ strip(OutputTextOf(i)) = <<>> /\ C6_Block(i).v # <<>>
              => startswith(result[i].v, FontesMarker)
           /\ response[i].body.v
                  = PyDict([outputText |-> PyStr(<<>>),
                            citations |-> PyList(<<S3Citation(<<PyStr(DocPdf)>>)>>)])
              => result[i] = PyStr(FontesOnlyDocPdf)

\* An answer whose outputText is whitespace only, with citations: the result
\* is the block alone.
C6_Witness ==
    \E i \in DOMAIN pc :
        /\ C6_CombineCase(i)
        /\ OutputTextOf(i) # <<>>
        /\ strip(OutputTextOf(i)) = <<>>
        /\ C6_Block(i).v # <<>>
        /\ result[i] = PyStr(lstrip(C6_Block(i).v))

\* ------------------------------------------------------------------------
\* Properties of _format_citations (specification SpecCitations)
\*
\* A source is a pair <<source identifier, display name>>. In
\* PessoasCulturaESG2.py a record carries at most one: the pair extracted
\* from it. In weduka2.py a dict record carries one per reference.
\* ------------------------------------------------------------------------

RECURSIVE split(_, _)
\* s.split(sep)
split(s, sep) ==
    With(find(s, sep), LAMBDA at :
    IF at = 0 THEN <<s>>
    ELSE <<SubSeq(s, 1, at - 1)>> \o split(SubSeq(s, at + Len(sep), Len(s)), sep))

\* The call has returned (it did not raise on a malformed record).
FormatterReturned == isinstance(citations_text, "str")

\* The block the call rendered: '' when it returned none, raised, or has not
\* been made.
RenderedBlock == IF FormatterReturned THEN citations_text.v ELSE <<>>

\* The numbered lines of the block: what follows the header, line by line.
Lines ==
    IF RenderedBlock = <<>> THEN <<>>
    ELSE split(SubSeq(RenderedBlock, Len(FontesHeader) + 1, Len(RenderedBlock)), <<"\n">>)

\* The number a line starts with, and the display name that follows ". ".
LineNumber(line) == SubSeq(line, 1, find(line, <<".", " ">>) - 1)

LineName(line) == SubSeq(line, find(line, <<".", " ">>) + 2, Len(line))

\* The lines that carry the display name.
LinesNaming(name) == {k \in 1..Len(Lines) : LineName(Lines[k]) = name}

\* The records of the list given to the call.
Records == IF isinstance(citations_data, "list") THEN citations_data.v ELSE <<>>

\* retrievedReferences of a dict record, when it is a list.
ReferencesOf(record) ==
    IF isinstance(record, "dict")
       /\ isinstance(get(record, "retrievedReferences", PyList(<<>>)), "list")
    THEN get(record, "retrievedReferences", PyList(<<>>)).v
    ELSE <<>>

\* The sources a record carries in weduka2.py: a non-empty str itself, every
\* non-empty s3 uri of a dict record's references.
weduka_RecordSources(record) ==
    IF isinstance(record, "str") /\ Truthy(record)
    THEN {<<record.v, split_last(record.v, <<"/">>)>>}
    ELSE {<<weduka_RefUri(ReferencesOf(record)[k]).v,
            weduka_RefDisplay(weduka_RefUri(ReferencesOf(record)[k]).v)>> :
            k \in {j \in 1..Len(ReferencesOf(record)) :
                     /\ isinstance(weduka_RefUri(ReferencesOf(record)[j]), "str")
                     /\ Truthy(weduka_RefUri(ReferencesOf(record)[j]))}}

\* The sources a record carries.
RecordSources(record) ==
    IF ~IsPessoas THEN weduka_RecordSources(record)
    ELSE IF SourceOf(record).t = "source" THEN {SourceOf(record).v}
    ELSE {}

\* The records that carry the source, by position.
CarriedBy(source) == {k \in 1..Len(Records) : source \in RecordSources(Records[k])}

\* The sources the list carries.
Carried == UNION {RecordSources(Records[k]) : k \in 1..Len(Records)}

\* The sources of the list whose display name is name.
CarriedNamed(name) == {source \in Carried : source[2] = name}

\* The length test: at most the configured maximum.
WithinMaxLength(name) == Len(name) <= max_citation_filename_length

\* The extension test: the text from the last dot of the name, compared
\* without regard to case, is in the allow-list.
HasAllowedExtension(name) ==
    \E extension \in allowed_citation_extensions : lower(splitext(name)) = extension

\* A source that the instance's class lists: in PessoasCulturaESG2.py one
\* that passes the length and extension tests; in weduka2.py any.
Listable(source) ==
    IsPessoas => /\ source[1] # <<>>
                 /\ source[2] # <<>>
                 /\ WithinMaxLength(source[2])
                 /\ HasAllowedExtension(source[2])

\* The sources of the list that are listable.
Survivors == {source \in Carried : Listable(source)}

\* C7 as stated: a source identifier carried by two or more records is listed
\* exactly once (read for an identifier whose display name no other
\* identifier of the list shares).
C7_RepeatedListedExactlyOnce ==
    FormatterReturned
    => \A source \in Carried :
           Cardinality(CarriedBy(source)) >= 2 /\ CarriedNamed(source[2]) = {source}
           => Cardinality(LinesNaming(source[2])) = 1

\* C7, amended: a source identifier carried by two or more records is listed
\* at most once, wherever the records stand: exactly once when it is
\* listable, not at all when its display name fails the length or extension
\* test. The lines that carry its display name are as many as the distinct
\* listable identifiers of the list with that display name.
C7_RepeatedListedAtMostOnce ==
    FormatterReturned
    => \A source \in Carried :
           Cardinality(CarriedBy(source)) >= 2
           => /\ Cardinality(LinesNaming(source[2]))
                    = Cardinality({s \in CarriedNamed(source[2]) : Listable(s)})
              /\ CarriedNamed(source[2]) = {source}
                 => Cardinality(LinesNaming(source[2])) = IF Listable(source) THEN 1 ELSE 0

\* A list whose first and third records carry the same identifier, with
\* another record between them, rendered with one line for it.
C7_Witness ==
    /\ FormatterReturned
    /\ \E source \in Carried :
           /\ CarriedBy(source) = {1, 3}
           /\ Cardinality(LinesNaming(source[2])) = 1

\* C8 as stated: no display name is on two numbered lines.
C8_DisplayNamesUnique ==
    \A j, k \in 1..Len(Lines) : LineName(Lines[j]) = LineName(Lines[k]) => j = k

\* C8, amended: the block has one line per listed source identifier, not per
\* display name: the lines that carry a display name are as many as the
\* distinct identifiers of the list with that display name, so two
\* identifiers with the same basename give two lines with the same name.
C8_OneLinePerIdentifier ==
    \A k \in 1..Len(Lines) :
        Cardinality(LinesNaming(LineName(Lines[k])))
            = Cardinality(CarriedNamed(LineName(Lines[k])))

\* A block with the same display name on two lines, from two identifiers.
C8_Witness ==
    \E j, k \in 1..Len(Lines) :
        /\ j # k
        /\ LineName(Lines[j]) = LineName(Lines[k])
        /\ Cardinality(CarriedNamed(LineName(Lines[k]))) = 2

\* C9 (PessoasCulturaESG2.py): every display name of the block is at most the
\* configured maximum (50) long and has an extension that, compared without
\* regard to case, is in the allow-list; and every source of the list that
\* passes both tests is on a line of the block.
C9_FiltersDecideListing ==
    IsPessoas /\ FormatterReturned
    => /\ \A k \in 1..Len(Lines) :
              WithinMaxLength(LineName(Lines[k])) /\ HasAllowedExtension(LineName(Lines[k]))
       /\ \A source \in Carried :
              WithinMaxLength(source[2]) /\ HasAllowedExtension(source[2])
              => LinesNaming(source[2]) # {}

\* A list with a name of 50 characters, a name of 51 and a name with an
\* upper-case extension: the first and the last are listed, the second not.
C9_Witness ==
    /\ IsPessoas
    /\ {<<Name50, Name50>>, <<Name51, Name51>>} \subseteq Carried
    /\ \E source \in Carried : splitext(source[2]) = <<".","P","D","F">>
                               /\ LinesNaming(source[2]) # {}
    /\ LinesNaming(Name50) # {}
    /\ LinesNaming(Name51) = {}

\* C10: the lines of a rendered block are numbered 1, 2, ..., n without gap
\* or repeat, n being the number of surviving sources, and their display
\* names are the surviving ones in ascending (code point) order, whatever
\* the order of the records.
C10_NumberedInOrder ==
    FormatterReturned
    => /\ Len(Lines) = Cardinality(Survivors)
       /\ RenderedBlock # <<>> => startswith(RenderedBlock, FontesHeader)
       /\ \A k \in 1..Len(Lines) : LineNumber(Lines[k]) = str_int(k)
       /\ \A k \in 1..(Len(Lines) - 1) :
              ~StrLess(LineName(Lines[k + 1]), LineName(Lines[k]))
       /\ {LineName(Lines[k]) : k \in 1..Len(Lines)} = {source[2] : source \in Survivors}

\* Three records in descending order of their names, rendered on three lines
\* in ascending order: the name of the third record first, that of the first
\* last.
C10_Witness ==
    /\ Len(Lines) = 3
    /\ Len(Records) = 3
    /\ LineName(Lines[1]) \in {source[2] : source \in RecordSources(Records[3])}
    /\ LineName(Lines[3]) \in {source[2] : source \in RecordSources(Records[1])}
    /\ StrLess(LineName(Lines[1]), LineName(Lines[2]))
    /\ StrLess(LineName(Lines[2]), LineName(Lines[3]))

\* The texts _call_anima_api combines with the rendered block: an empty
\* output_text and a plain answer.
C11_OutputTexts == {<<>>, Answer}

\* final_response_text built by the caller from output_text and the block the
\* call rendered.
C11_Returned(output_text) ==
    IF IsPessoas THEN CombineText(output_text, RenderedBlock)
    ELSE weduka_CombineText(output_text, RenderedBlock)

\* C11: when no source survives extraction, deduplication and filtering
\* (an empty list and an input that is no list included) _format_citations
\* returns '' and the text the caller builds carries no '**Fontes:**' header;
\* a header, in the block or in the caller's text, is always followed by the
\* line numbered 1.
C11_HeaderOnlyWithLines ==
    FormatterReturned
    => /\ Survivors = {} => citations_text = PyStr(<<>>)
       /\ ~isinstance(citations_data, "list") => citations_text = PyStr(<<>>)
       /\ RenderedBlock # <<>>
          => /\ startswith(RenderedBlock, FontesHeader)
             /\ LineNumber(Lines[1]) = <<"1">>
             /\ LineName(Lines[1]) # <<>>
       /\ \A text \in {C11_Returned(output_text) : output_text \in C11_OutputTexts} :
              /\ Survivors = {} => ~contains(text, FontesMarker)
              /\ contains(text, FontesMarker)
                 => contains(text, FontesMarker \o <<"\n","1","."," ">>)

\* A list of records that carry sources none of which survives: the call
\* returned '' and the caller's text is the answer alone.
C11_Witness ==
    /\ FormatterReturned
    /\ Carried # {}
    /\ Survivors = {}
    /\ citations_text = PyStr(<<>>)
    /\ C11_Returned(Answer) = Answer

\* ------------------------------------------------------------------------
\* Properties of _format_history_string (specification SpecHistory)
\* ------------------------------------------------------------------------

\* The call has returned (it did not raise on an entry that is not a dict).
HistoryReturned == isinstance(history_string, "str")

\* The transcript the call returned.
Transcript == IF HistoryReturned THEN history_string.v ELSE <<>>

\* The turns of the conversation given to the call.
Turns == IF isinstance(history_messages, "list") THEN history_messages.v ELSE <<>>

\* The role of turn k and the text extracted from its content.
TurnRole(k) == get(Turns[k], "role", PyNone)

TurnText(k) == ContentText(get(Turns[k], "content", PyStr(<<>>))).v

AssistantPrefix == <<"A","s","s","i","s","t","a","n","t",":"," ">>

UserPrefix == <<"U","s","e","r",":"," ">>

\* Turn k is an assistant turn whose text contains the citation marker.
C12_AssistantWithMarker(k) ==
    TurnRole(k) = PyStr(RoleAssistant) /\ contains(TurnText(k), sources_marker)

\* The text of turn k before the first marker, without trailing whitespace,
\* and the text after that marker.
C12_Before(k) == rstrip(SubSeq(TurnText(k), 1, find(TurnText(k), sources_marker) - 1))

C12_After(k) ==
    SubSeq(TurnText(k), find(TurnText(k), sources_marker) + Len(sources_marker),
           Len(TurnText(k)))

\* The text of turn k a transcript may show: all of it, or the part before
\* the marker for an assistant turn with a marker.
C12_Shown(k) == IF C12_AssistantWithMarker(k) THEN C12_Before(k) ELSE TurnText(k)

\* C12 (PessoasCulturaESG2.py): for an assistant turn whose text contains the
\* marker the transcript carries 'Assistant: ' and the text before the first
\* marker without trailing whitespace, and that is the whole transcript when
\* the turn is the only one; the marker is in the transcript only when a turn
\* that is no assistant turn has it, and what follows the marker only when
\* it is part of what some turn shows; a user turn's text is carried whole.
C12_AssistantTextCutAtMarker ==
    IsPessoas /\ HistoryReturned
    => /\ \A k \in 1..Len(Turns) :
              C12_AssistantWithMarker(k)
              => /\ C12_Before(k) # <<>>
                    => contains(Transcript, AssistantPrefix \o C12_Before(k))
                 /\ Len(Turns) = 1
                    => Transcript = IF C12_Before(k) = <<>> THEN <<>>
                                    ELSE AssistantPrefix \o C12_Before(k)
                 /\ (\A j \in 1..Len(Turns) : ~contains(C12_Shown(j), C12_After(k)))
                    => ~contains(Transcript, C12_After(k))
       /\ (\A k \in 1..Len(Turns) :
              TurnRole(k) # PyStr(RoleAssistant) => ~contains(TurnText(k), sources_marker))
          => ~contains(Transcript, sources_marker)
       /\ \A k \in 1..Len(Turns) :
              TurnRole(k) = PyStr(RoleUser) /\ TurnText(k) # <<>>
              => contains(Transcript, UserPrefix \o TurnText(k))

\* A conversation with a user turn that has the marker and an assistant turn
\* that has it: the transcript shows the user's text whole and the
\* assistant's text up to the marker.
C12_Witness ==
    /\ IsPessoas /\ HistoryReturned
    /\ \E j, k \in 1..Len(Turns) :
           /\ TurnRole(j) = PyStr(RoleUser)
           /\ contains(TurnText(j), sources_marker)
           /\ C12_AssistantWithMarker(k)
           /\ C12_Before(k) # <<>>
           /\ contains(Transcript, UserPrefix \o TurnText(j))
           /\ contains(Transcript, AssistantPrefix \o C12_Before(k))
           /\ ~contains(Transcript, C12_After(k))

\* ------------------------------------------------------------------------
\* Properties of pipe's prompt (specification Spec)
\* ------------------------------------------------------------------------

\* The invocations that have just posted their request.
Posted == {i \in DOMAIN pc : pc[i] = "waiting"}

\* The prompt invocation i posted.
PromptOf(i) == requests[i][1].json.v["prompt"]

\* The conversation of invocation i: its messages without a leading system
\* message.
Conversation(i) ==
    IF args[i].messages.v # <<>>
       /\ get(args[i].messages.v[1], "role", PyNone) = PyStr(RoleSystem)
    THEN Tail(args[i].messages.v)
    ELSE args[i].messages.v

\* The conversation without its last turn.
WithoutLast(i) == SubSeq(Conversation(i), 1, Len(Conversation(i)) - 1)

\* The content of the last turn.
LastContent(i) == get(Conversation(i)[Len(Conversation(i))], "content", PyNone)

\* The last turn of the conversation is a user turn.
LastIsUser(i) ==
    /\ Conversation(i) # <<>>
    /\ get(Conversation(i)[Len(Conversation(i))], "role", PyNone) = PyStr(RoleUser)

\* The prompt the instance builds for invocation i from the transcript of
\* turns.
PromptWith(i, turns) ==
    IF IsPessoas
    THEN PyStr(prompt_to_send(args[i].body, _format_history_string(turns).v,
                              args[i].user_message.v))
    ELSE PyStr(weduka_prompt_to_send(args[i].body, weduka_format_history_string(turns).v,
                                     args[i].user_message.v))

\* The text extracted from the last turn is the incoming message.
C13_TextEquals(i) == ContentText(LastContent(i)) = args[i].user_message

\* The positions of the text parts of a list content.
C13_TextPartsAt(content) == {k \in 1..Len(content.v) : IsTextPart(content.v[k])}

\* The last turn's content is the incoming message itself: the equal str, or
\* a list with one text part of that text, which in PessoasCulturaESG2.py
\* must be the list's only element.
C13_SameMessage(i) ==
    \/ LastContent(i) = args[i].user_message
    \/ /\ isinstance(LastContent(i), "list")
       /\ IsPessoas => Len(LastContent(i).v) = 1
       /\ \E k \in C13_TextPartsAt(LastContent(i)) :
              /\ C13_TextPartsAt(LastContent(i)) = {k}
              /\ get(LastContent(i).v[k], "text", PyStr(<<>>)) = args[i].user_message

\* C13 as stated: the last turn is left out of the transcript exactly when it
\* is a user turn whose extracted text equals the incoming message.
C13_DropsLastOnEqualText ==
    \A i \in Posted :
        PromptOf(i) = PromptWith(i, IF LastIsUser(i) /\ C13_TextEquals(i)
                                    THEN WithoutLast(i) ELSE Conversation(i))

\* C13, amended: the last turn is left out of the transcript exactly when it
\* is a user turn whose content is the incoming message as a str, or a list
\* whose only text part has exactly that text (in PessoasCulturaESG2.py a
\* list of that one part and nothing else); in every other case the
\* transcript is that of the whole conversation, and never more than the
\* last turn is left out.
C13_DropsLastOnSameMessage ==
    \A i \in Posted :
        PromptOf(i) = PromptWith(i, IF LastIsUser(i) /\ C13_SameMessage(i)
                                    THEN WithoutLast(i) ELSE Conversation(i))

\* A posted prompt whose transcript leaves out a last user turn that repeats
\* the incoming message and keeps the turns before it.
C13_Witness ==
    \E i \in Posted :
        /\ LastIsUser(i) /\ C13_SameMessage(i)
        /\ Len(Conversation(i)) >= 2
        /\ PromptOf(i) = PromptWith(i, WithoutLast(i))
        /\ PromptOf(i) # PromptWith(i, Conversation(i))
        /\ PromptOf(i) # PromptWith(i, <<>>)

\* ------------------------------------------------------------------------
\* Properties of pipe's error messages (specification Spec)
\* ------------------------------------------------------------------------

\* The backend answered invocation i with an error status.
HttpErrorCase(i) ==
    /\ pc[i] = "returned"
    /\ response[i].t = "response"
    /\ IsHttpError(response[i].status)

C14_AuthError == 
    <<"E","r","r","o"," ","d","e"," ","A","u","t","e","n","t","i","c","a",
      "ç","ã","o","/","A","u","t","o","r","i","z","a","ç","ã","o"," ","(">>

C14_NotFound == 
    <<"E","r","r","o"," ","(","4","0","4",")",":"," ","R","e","c","u","r",
      "s","o"," ","n","ã","o"," ","e","n","c","o","n","t","r","a","d","o",
      " ","e","m"," ">>

C14_RateLimit == 
    <<"E","r","r","o",":"," ","L","i","m","i","t","e"," ","d","e"," ","r",
      "e","q","u","i","s","i","ç","õ","e","s"," ","p","a","r","a"," ","a",
      " ","A","P","I"," ","e","x","c","e","d","i","d","o",".">>

C14_BadRequest == 
    <<"E","r","r","o"," ","n","a"," ","r","e","q","u","i","s","i","ç","ã",
      "o"," ","(">>

C14_BackendInternal == 
    <<"E","r","r","o"," ","i","n","t","e","r","n","o"," ","n","a"," ","A",
      "P","I"," ","A","n","i","m","a"," ","(">>

\* How each message class of PessoasCulturaESG2.py starts.
C14_Classes ==
    {C14_AuthError, C14_NotFound, C14_RateLimit, C14_BadRequest, C14_BackendInternal}

\* The class the status stands for.
C14_ClassOf(status) ==
    IF status \in {401, 403} THEN C14_AuthError
    ELSE IF status = 404 THEN C14_NotFound
    ELSE IF status = 429 THEN C14_RateLimit
    ELSE IF status \in 400..499 THEN C14_BadRequest
    ELSE C14_BackendInternal

\* C14 (PessoasCulturaESG2.py): the message returned on an HTTP error status
\* is of the class the status stands for, 401/403 authentication, 404 not
\* found, 429 rate limit, any other 4xx bad request, 5xx backend internal,
\* and of no other class, whatever the body of the response.
C14_ClassByStatusAlone ==
    \A i \in DOMAIN pc :
        IsPessoas /\ HttpErrorCase(i)
        => \A class \in C14_Classes :
               startswith(result[i].v, class) <=> class = C14_ClassOf(response[i].status)

\* The backend answered invocation i with a success status and a body that
\* is not JSON.
C15_UndecodableCase(i) ==
    /\ pc[i] = "returned"
    /\ response[i].t = "response"
    /\ ~IsHttpError(response[i].status)
    /\ response[i].body.t = "text"

C15_DecodeError == 
    <<"E","r","r","o",":"," ","R","e","s","p","o","s","t","a"," ","i","n",
      "v","á","l","i","d","a"," ","(","n","ã","o"," ","J","S","O","N",")",
      " ">>

\* C15: on a success status with a body that is not valid JSON the result is
\* the decode-error message, 'Erro: Resposta inválida (não JSON) ...', and so
\* neither the communication-error nor the unexpected-error message.
C15_DecodeErrorMessage ==
    \A i \in DOMAIN pc :
        C15_UndecodableCase(i) => startswith(result[i].v, C15_DecodeError)

\* ------------------------------------------------------------------------
\* Properties of concurrent invocations (specification SpecConcurrent)
\* ------------------------------------------------------------------------

\* What pipe of the instance's file returns when it is called with the
\* arguments a and requests.post ends in outcome, computed from the
\* functions of the file and from nothing an invocation has left behind.
C16_Alone(a, outcome) ==
    LET early   == IF IsPessoas THEN EarlyReturn(a.user_message, a.body)
                   ELSE weduka_EarlyReturn(a.user_message, a.body)
        payload == IF IsPessoas THEN BuildPayload(a.user_message, a.messages, a.body)
                   ELSE weduka_BuildPayload(a.user_message, a.messages, a.body)
        url     == IF IsPessoas THEN api_url ELSE weduka_api_url
        text    == IF IsPessoas THEN _call_anima_api(url, outcome)
                   ELSE weduka_call_anima_api(url, outcome)
        handled(e) == IF IsPessoas THEN PipeExcept(e) ELSE weduka_PipeExcept(e)
    IN  IF early # PyNone THEN early
        ELSE IF IsRaise(payload) THEN handled(payload)
        ELSE IF IsRaise(text) THEN handled(text)
        ELSE text

\* Every invocation that has returned holds the result of a lone call.
C16_ResultAsAlone ==
    \A i \in DOMAIN pc :
        pc[i] = "returned" => result[i] = C16_Alone(args[i], response[i])

\* A step is the step of one invocation: it leaves the instance's fields and
\* everything the other invocations hold as they were.
C16_StepOfOne ==
    /\ variant' = variant
    /\ valves' = valves
    /\ \E i \in DOMAIN pc :
          \A j \in DOMAIN pc \ {i} :
              /\ pc'[j] = pc[j]
              /\ args'[j] = args[j]
              /\ requests'[j] = requests[j]
              /\ response'[j] = response[j]
              /\ result'[j] = result[j]
              /\ lists'[j] = lists[j]

\* C16: however the invocations of pipe on one instance interleave, each
\* returns what a lone call with its arguments and its backend response
\* returns, and no step of an invocation changes a field of the instance or
\* anything another invocation holds.
C16_InvocationsIsolated == [](C16_ResultAsAlone) /\ [][C16_StepOfOne]_vars

\* Two invocations have returned on one instance, each after its own backend
\* response, with different arguments, responses and results.
C16_Witness ==
    \E i, j \in DOMAIN pc :
        /\ i # j
        /\ pc[i] = "returned" /\ pc[j] = "returned"
        /\ response[i] # PyNone /\ response[j] # PyNone
        /\ response[i] # response[j]
        /\ args[i] # args[j]
        /\ result[i] # result[j]

\* ------------------------------------------------------------------------
\* Properties of the caller's list (specification Spec)
\* ------------------------------------------------------------------------

\* The items of the caller's list without its leading system message.
C17_WithoutSystem(i) ==
    LET m == args[i].messages.v
    IN  IF m # <<>> /\ isinstance(m[1], "dict")
           /\ get(m[1], "role", PyNone) = PyStr(RoleSystem)
        THEN Tail(m) ELSE m

\* C17: while an invocation is under way and when it has returned, on success
\* and on every error path, the caller's messages list holds the items it
\* held at the call, in the same order; a list the invocation has made is
\* that list without its system message, whole or cut by its last turn.
C17_CallerListUnchanged ==
    \A i \in Invocations :
        /\ lists[i].messages = args[i].messages.v
        /\ \/ lists[i].conversation_messages = "messages"
           \/ Bound(lists[i]) = C17_WithoutSystem(i)
           \/ /\ C17_WithoutSystem(i) # <<>>
              /\ Bound(lists[i]) = SubSeq(C17_WithoutSystem(i), 1,
                                          Len(C17_WithoutSystem(i)) - 1)

\* An invocation has removed the duplicate last turn of a conversation that
\* has no system message, so that conversation_messages named the caller's
\* list when the turn was removed.
C17_Witness ==
    \E i \in Invocations :
        /\ args[i].messages.v # <<>>
        /\ C17_WithoutSystem(i) = args[i].messages.v
        /\ lists[i].conversation_messages = "copy"
        /\ Len(lists[i].copy) = Len(args[i].messages.v) - 1

\* ------------------------------------------------------------------------
\* Properties of the prompt's layout (specification Spec)
\* ------------------------------------------------------------------------

\* The base instructions of invocation i: the body's prompt_template when it
\* is a str that is not empty, the configured ones otherwise.
C18_Base(i) ==
    LET b == args[i].body.v
    IN  IF "prompt_template" \in DOMAIN b /\ isinstance(b["prompt_template"], "str")
           /\ b["prompt_template"].v # <<>>
        THEN b["prompt_template"].v
        ELSE valves.PROMPT_TEMPLATE_ANIMA

\* The transcript of the list invocation i handed to the History Formatter.
C18_Transcript(i) ==
    IF IsPessoas THEN _format_history_string(Bound(lists[i])).v
    ELSE weduka_format_history_string(Bound(lists[i])).v

\* The text of the current-question section: the user's message, which
\* PessoasCulturaESG2.py trims and follows with its language instruction.
C18_Question(i) ==
    IF IsPessoas THEN strip(args[i].user_message.v) \o LanguageInstruction
    ELSE args[i].user_message.v

\* The history section: its opening line, the transcript, its closing line.
C18_HistorySection(i) ==
    HistoryOpening \o <<"\n">> \o C18_Transcript(i) \o <<"\n">> \o HistoryClosing
    \o <<"\n">>

\* text ends with suffix
C18_EndsWith(text, suffix) ==
    /\ Len(suffix) <= Len(text)
    /\ SubSeq(text, Len(text) - Len(suffix) + 1, Len(text)) = suffix

\* C18: the prompt posted is, trimmed, the base instructions, then the history
\* section exactly when the transcript is not empty, then the current-question
\* section with the user's message, which ends the prompt; the base
\* instructions are the body's prompt_template when it is a non-empty str and
\* the configured ones for any other value.
C18_PromptInOrder ==
    \A i \in Posted :
        /\ PromptOf(i).v =
              strip(C18_Base(i) \o <<"\n">>
                    \o (IF C18_Transcript(i) # <<>> THEN C18_HistorySection(i) ELSE <<>>)
                    \o QuestionOpening \o <<"\n">> \o C18_Question(i))
        /\ C18_EndsWith(PromptOf(i).v, strip(C18_Question(i)))

\* A prompt posted with a transcript and with the body's own template.
C18_Witness ==
    \E i \in Posted :
        /\ C18_Transcript(i) # <<>>
        /\ C18_Base(i) # valves.PROMPT_TEMPLATE_ANIMA
        /\ startswith(PromptOf(i).v, C18_Base(i))

\* ------------------------------------------------------------------------
\* Properties of the transcript's layout (specification SpecHistory)
\* ------------------------------------------------------------------------

\* The text a turn is shown with. PessoasCulturaESG2.py shows an assistant's
\* text up to the marker and without trailing whitespace, and any other text
\* as it is; weduka2.py shows every text trimmed.
C19_Text(k) ==
    IF ~IsPessoas THEN strip(TurnText(k))
    ELSE IF TurnRole(k) # PyStr(RoleAssistant) THEN TurnText(k)
    ELSE IF C12_AssistantWithMarker(k) THEN C12_Before(k)
    ELSE rstrip(TurnText(k))

\* Turn k survives: it has a text, and in PessoasCulturaESG2.py one that the
\* cut leaves something of.
C19_Survives(k) == TurnText(k) # <<>> /\ (IsPessoas => C19_Text(k) # <<>>)

\* The line '<Role>: <text>' of turn k.
C19_Line(k) == capitalize(TurnRole(k).v) \o <<":"," ">> \o C19_Text(k)

RECURSIVE C19_LinesFrom(_)
\* The lines of the surviving turns from turn k on, in the conversation's order.
C19_LinesFrom(k) ==
    IF k > Len(Turns) THEN <<>>
    ELSE (IF C19_Survives(k) THEN <<C19_Line(k)>> ELSE <<>>) \o C19_LinesFrom(k + 1)

\* The transcript is the lines of the surviving turns joined by newlines.
C19_OneLinePerTurn ==
    HistoryReturned => Transcript = join(<<"\n">>, C19_LinesFrom(1))

\* The transcript has no whitespace at either end.
C19_Trimmed == HistoryReturned => Transcript = strip(Transcript)

\* C19: the transcript is one line '<Role>: <text>' per surviving turn, in the
\* conversation's order, joined by single newlines, and it has no leading or
\* trailing whitespace, whatever the conversation.
C19_LinesJoinedAndTrimmed == C19_OneLinePerTurn /\ C19_Trimmed

\* The same for weduka2.py alone, whose formatter ends in strip().
C19_TrimmedInWeduka == IsPessoas \/ C19_LinesJoinedAndTrimmed

\* ------------------------------------------------------------------------
\* Properties of turns without text (specification SpecHistory)
\* ------------------------------------------------------------------------

\* The content of turn k.
C20_Content(k) == get(Turns[k], "content", PyStr(<<>>))

\* The content of turn k gives no text: the empty str, a value that is
\* neither a str nor a list, a list without a text part that has a text.
C20_ContentWithoutText(k) ==
    \/ C20_Content(k) = PyStr(<<>>)
    \/ ~isinstance(C20_Content(k), "str") /\ ~isinstance(C20_Content(k), "list")
    \/ /\ isinstance(C20_Content(k), "list")
       /\ \A p \in 1..Len(C20_Content(k).v) :
              IsTextPart(C20_Content(k).v[p])
              => get(C20_Content(k).v[p], "text", PyStr(<<>>)) = PyStr(<<>>)

\* Turn k is an assistant turn with nothing but whitespace before the marker.
C20_EmptiedByCut(k) ==
    /\ TurnRole(k) = PyStr(RoleAssistant)
    /\ ~C20_ContentWithoutText(k)
    /\ rstrip(split_first(TurnText(k), sources_marker)) = <<>>

\* Turn k has no text to show.
C20_NoText(k) == C20_ContentWithoutText(k) \/ C20_EmptiedByCut(k)

RECURSIVE C20_Entries(_)
\* One entry for every turn from k on that has a text, none for the others.
C20_Entries(k) ==
    IF k > Len(Turns) THEN <<>>
    ELSE (IF C20_NoText(k) THEN <<>> ELSE <<C19_Line(k)>>) \o C20_Entries(k + 1)

\* C20 (PessoasCulturaESG2.py): a turn whose content is the empty str, is
\* neither a str nor a list, or is a list with no text in a text part, and an
\* assistant turn with nothing before its citation block, has no line in the
\* transcript; every other turn has exactly one, so that the transcript is
\* the lines of those turns and is empty when there is none.
C20_NoLineWithoutText ==
    IsPessoas /\ HistoryReturned
    => /\ Transcript = join(<<"\n">>, C20_Entries(1))
       /\ (\A k \in 1..Len(Turns) : C20_NoText(k)) => Transcript = <<>>
       /\ \A k \in 1..Len(Turns) : ~C20_NoText(k) => contains(Transcript, C19_Line(k))

\* A transcript of one line for a conversation of three turns: one whose
\* content gives no text, an assistant turn that is only a citation block,
\* and one with a text.
C20_Witness ==
    /\ IsPessoas /\ HistoryReturned
    /\ Len(Turns) = 3
    /\ \E k \in 1..3 : C20_ContentWithoutText(k)
    /\ \E k \in 1..3 : C20_EmptiedByCut(k)
    /\ \E k \in 1..3 : ~C20_NoText(k) /\ Transcript = C19_Line(k)

\* ------------------------------------------------------------------------
\* Properties of repeated formatting (specification SpecHistoryCalls)
\* ------------------------------------------------------------------------

\* C21: every call of the History Formatter on one conversation returns what
\* the first call returned, and the list holds, during and after every call,
\* the turns each call was given.
C21_SameTranscriptTwice ==
    /\ history_frame # PyNone => history_messages.v = history_frame.given
    /\ \A i \in 1..Len(history_log) :
           /\ history_messages.v = history_log[i].given
           /\ history_log[i].returned = history_log[1].returned

\* A second call has run its loop to the end and returned the transcript the
\* first returned, of a conversation with an assistant turn that has a
\* citation block and a user turn with whitespace around its text.
C21_Witness ==
    /\ Len(history_log) = 2
    /\ history_frame = PyNone
    /\ isinstance(history_log[2].returned, "str")
    /\ history_log[2].returned.v # <<>>
    /\ history_log[2].returned = history_log[1].returned
    /\ \E k \in 1..Len(history_log[1].given) :
           history_log[1].given[k] = Turn(RoleAssistant, PyStr(AnswerWithSources))
    /\ \E k \in 1..Len(history_log[1].given) :
           history_log[1].given[k] = Turn(RoleUser, PyStr(PaddedQuestion))

\* ------------------------------------------------------------------------
\* Properties of unexpected failures (specification Spec)
\* ------------------------------------------------------------------------

\* The generic error strings of PessoasCulturaESG2.py, up to the class name:
\* that of pipe's except clause and that of the last clause of _call_anima_api.
C22_PipeGeneric == 
    <<"O","c","o","r","r","e","u"," ","u","m"," ","e","r","r","o"," ","i",
      "n","e","s","p","e","r","a","d","o"," ","a","o"," ","p","r","o","c",
      "e","s","s","a","r"," ","s","u","a"," ","s","o","l","i","c","i","t",
      "a","ç","ã","o",":"," ">>

C22_ApiGeneric == 
    <<"O","c","o","r","r","e","u"," ","u","m"," ","e","r","r","o"," ","i",
      "n","e","s","p","e","r","a","d","o"," ","d","u","r","a","n","t","e",
      " ","a"," ","c","h","a","m","a","d","a"," ","d","a"," ","A","P","I",
      ":"," ">>

\* Invocation i passed both checks and returned without posting a request: an
\* exception was raised while the prompt was built.
C22_BuildFailed(i) ==
    /\ Truthy(args[i].user_message)
    /\ Truthy(req_user_id(args[i].body))
    /\ requests[i] = <<>>

\* requests.post raised an exception of a class no except clause names.
C22_PostFailed(i) == IsRaise(response[i]) /\ Bases(response[i].v) = {}

\* The backend answered 200 with JSON that is no object, or with an object
\* whose outputText is no str.
C22_UnexpectedShape(i) ==
    /\ response[i].t = "response"
    /\ ~IsHttpError(response[i].status)
    /\ response[i].body.t = "json"
    /\ \/ ~isinstance(response[i].body.v, "dict")
       \/ /\ "outputText" \in DOMAIN response[i].body.v.v
          /\ ~isinstance(response[i].body.v.v["outputText"], "str")

\* The backend answered 200 with a body that is not JSON, and response.json()
\* raised an error of a class no except clause names.
C22_UndecodableUnnamed(i) ==
    /\ response[i].t = "response"
    /\ ~IsHttpError(response[i].status)
    /\ response[i].body.t = "text"
    /\ Bases(response[i].body.exc.v) = {}

\* The backend answered an error status with a body that is not JSON, and
\* e.response.json() raised, inside the HTTPError clause, an error that the
\* clause's own except does not name.
C22_DecodeInsideClause(i) ==
    /\ response[i].t = "response"
    /\ IsHttpError(response[i].status)
    /\ response[i].body.t = "text"
    /\ "json.JSONDecodeError" \notin Bases(response[i].body.exc.v)

\* C22 (PessoasCulturaESG2.py): a failure outside the named classes (an
\* exception while the prompt is built, an exception of requests.post or of
\* response.json() that no clause names, JSON that is no object, an
\* outputText that is no str) ends in a returned str made of a generic error
\* text and the exception's type name, and the invocation has posted no
\* request after the failure: none at all when the prompt failed, one
\* otherwise.
C22_GenericErrorWithTypeName ==
    \A i \in DOMAIN pc :
        IsPessoas /\ pc[i] = "returned"
        => /\ C22_BuildFailed(i)
              => /\ \E name \in {"AttributeError", "TypeError"} :
                        result[i] = PyStr(C22_PipeGeneric \o ClassName(name))
                 /\ response[i] = PyNone
           /\ response[i] # PyNone
              => /\ Len(requests[i]) = 1
                 /\ C22_PostFailed(i)
                    => result[i] = PyStr(C22_ApiGeneric \o ClassName(response[i].v))
                 /\ C22_UnexpectedShape(i)
                    => result[i] = PyStr(C22_ApiGeneric \o ClassName("AttributeError"))
                 /\ C22_UndecodableUnnamed(i)
                    => result[i] = PyStr(C22_ApiGeneric
                                         \o ClassName(response[i].body.exc.v))
                 /\ C22_DecodeInsideClause(i)
                    => result[i] = PyStr(C22_PipeGeneric
                                         \o ClassName(response[i].body.exc.v))

\* An invocation returned the generic text with 'AttributeError' after the
\* backend answered 200 with a JSON list.
C22_Witness ==
    \E i \in DOMAIN pc :
        /\ IsPessoas /\ pc[i] = "returned"
        /\ response[i] # PyNone
        /\ C22_UnexpectedShape(i)
        /\ isinstance(response[i].body.v, "list")
        /\ result[i] = PyStr(C22_ApiGeneric \o ClassName("AttributeError"))

\* ------------------------------------------------------------------------
\* Properties of the weduka2.py formatter (specification SpecCitations)
\* ------------------------------------------------------------------------

\* The list carries a source whose display name fails a test of
\* PessoasCulturaESG2.py.
C23_CarriesFiltered ==
    \E source \in Carried : ~WithinMaxLength(source[2]) \/ ~HasAllowedExtension(source[2])

\* C23 (weduka2.py): every non-empty source identifier of the list has its
\* display name on a line of the block, however long the name and whatever
\* its extension, one line per identifier; and when the list carries a name
\* over the maximum length or with an extension outside the allow-list, the
\* block is not the one PessoasCulturaESG2.py renders for the same list.
C23_NoFilterInWeduka ==
    ~IsPessoas /\ FormatterReturned
    => /\ \A source \in Carried :
              Cardinality(LinesNaming(source[2])) = Cardinality(CarriedNamed(source[2]))
       /\ Len(Lines) = Cardinality(Carried)
       /\ C23_CarriesFiltered => citations_text # _format_citations(citations_data)

\* A block of weduka2.py with a name of 51 characters and an .exe name on
\* its lines, for a list of which PessoasCulturaESG2.py lists the .pdf only.
C23_Witness ==
    /\ ~IsPessoas /\ FormatterReturned
    /\ LinesNaming(Name51) # {}
    /\ LinesNaming(split_last(RunExe, <<"/">>)) # {}
    /\ Len(Lines) = 3
    /\ _format_citations(citations_data) = PyStr(FontesHeader \o <<"1","."," ">> \o split_last(DocPdf, <<"/">>))

\* The display name of the first source record k carries, '' when it carries
\* none.
C24_NameOf(k) ==
    IF RecordSources(Records[k]) = {} THEN <<>>
    ELSE (CHOOSE source \in RecordSources(Records[k]) : TRUE)[2]

\* C24 as stated (weduka2.py): the numbered lines follow the order in which
\* the references were first seen, not the order of their display names: of
\* two names first seen in records j < k, the name of j is on an earlier line.
C24_LinesInFirstSeenOrder ==
    ~IsPessoas /\ FormatterReturned
    => \A j, k \in 1..Len(Records) :
           /\ j < k
           /\ Cardinality(RecordSources(Records[j])) = 1
           /\ Cardinality(RecordSources(Records[k])) = 1
           /\ C24_NameOf(j) # C24_NameOf(k)
           /\ \A i \in 1..(k - 1) :
                  i # j => RecordSources(Records[i])
                              \cap (RecordSources(Records[j]) \cup RecordSources(Records[k])) = {}
           => \E a, b \in 1..Len(Lines) :
                  /\ a < b
                  /\ LineName(Lines[a]) = C24_NameOf(j)
                  /\ LineName(Lines[b]) = C24_NameOf(k)

\* C24, amended (weduka2.py): the formatter sorts before it numbers: the
\* display names on the numbered lines 1, 2, ... are in ascending (code
\* point) order, whatever the order in which the references were first seen.
C24_LinesInSortedOrder ==
    ~IsPessoas /\ FormatterReturned
    => /\ \A k \in 1..Len(Lines) : LineNumber(Lines[k]) = str_int(k)
       /\ \A k \in 1..(Len(Lines) - 1) :
              ~StrLess(LineName(Lines[k + 1]), LineName(Lines[k]))

\* A block of weduka2.py for two records whose names were first seen in
\* descending order: the second record's name is on line 1, the first
\* record's on line 2.
C24_Witness ==
    /\ ~IsPessoas /\ FormatterReturned
    /\ Len(Records) = 2
    /\ Len(Lines) = 2
    /\ Cardinality(RecordSources(Records[1])) = 1
    /\ Cardinality(RecordSources(Records[2])) = 1
    /\ StrLess(C24_NameOf(2), C24_NameOf(1))
    /\ LineName(Lines[1]) = C24_NameOf(2)
    /\ LineName(Lines[2]) = C24_NameOf(1)

\* ------------------------------------------------------------------------
\* Properties of the Bedrock pipeline (specification SpecBedrock)
\* ------------------------------------------------------------------------

\* A call of pipe that carried a query, and so made a request.
C25_IsRequest(e) == e.op = "pipe" /\ e.payload # PyNone

\* A successful response that carried a session id.
C25_Returned(e) ==
    /\ e.op = "get_completion"
    /\ isinstance(e.response, "dict")
    /\ "sessionId" \in DOMAIN e.response.v

\* A request whose body supplied a session id.
C25_Supplied(e) == C25_IsRequest(e) /\ Truthy(get(e.body, "sessionId", PyNone))

\* The session id the claim says is stored after the events of log.
C25_Stored(log) ==
    LET returned == {k \in DOMAIN log : C25_Returned(log[k])}
        supplied == {k \in DOMAIN log : C25_Supplied(log[k])}
    IN  IF returned # {}
        THEN log[CHOOSE k \in returned : \A j \in returned : j <= k].response.v["sessionId"]
        ELSE IF supplied # {}
        THEN log[CHOOSE k \in supplied : \A j \in supplied : k <= j].body.v["sessionId"]
        ELSE PyNone

\* No call is between its test of line 78 and its request.
C25_BetweenCalls ==
    \A c \in Conversations : in_flight[c] = PyNone \/ At(c, "waiting") \/ At(c, "line 125")

\* C25: when the calls come one after the other, the stored session id is
\* the one returned by the most recent successful response that carried
\* one, else the one of the first request body that supplied one (a call
\* without a query makes no request); every request is sent with the stored
\* id, has no sessionId key exactly when nothing is stored, and ignores its
\* body's id once an id is stored.
C25_SentWithStoredSessionId ==
    /\ C25_BetweenCalls
       => IF C25_Stored(session_log) = PyNone THEN ~Truthy(session_id)
          ELSE session_id = C25_Stored(session_log)
    /\ \A k \in DOMAIN session_log :
           C25_IsRequest(session_log[k])
           => LET stored  == C25_Stored(SubSeq(session_log, 1, k))
                  before  == C25_Stored(SubSeq(session_log, 1, k - 1))
                  payload == session_log[k].payload.v
              IN  /\ ("sessionId" \in DOMAIN payload) <=> (stored # PyNone)
                  /\ stored # PyNone => payload["sessionId"] = stored
                  /\ before # PyNone => payload["sessionId"] = before

\* A response has returned a session id, a later request whose body supplied
\* another id was sent with the returned one, and that id is still stored.
C25_Witness ==
    \E j, k \in DOMAIN session_log :
        /\ j < k
        /\ C25_Returned(session_log[j])
        /\ "sessionId" \notin DOMAIN session_log[j].payload.v
        /\ C25_Supplied(session_log[k])
        /\ session_log[k].body.v["sessionId"] # session_log[j].response.v["sessionId"]
        /\ session_log[k].payload.v["sessionId"] = session_log[j].response.v["sessionId"]
        /\ session_id = session_log[j].response.v["sessionId"]
        /\ At(session_log[k].conversation, "waiting")
        /\ in_flight[session_log[k].conversation].payload = session_log[k].payload

\* The session ids that conversation c supplied in the bodies of its calls or
\* that were returned in the responses to its requests.
C26_IdsOf(c, log) ==
    {log[k].body.v["sessionId"] :
        k \in {j \in DOMAIN log : /\ log[j].op = "pipe"
                                  /\ log[j].conversation = c
                                  /\ "sessionId" \in DOMAIN log[j].body.v}}
    \cup {log[k].response.v["sessionId"] :
        k \in {j \in DOMAIN log : C25_Returned(log[j]) /\ log[j].conversation = c}}

\* C26: a request of one conversation is never sent with a session id that
\* the other conversation supplied or was returned.
C26_NoForeignSessionId ==
    \A k \in DOMAIN session_log :
        C25_IsRequest(session_log[k]) /\ "sessionId" \in DOMAIN session_log[k].payload.v
        => \A c \in Conversations \ {session_log[k].conversation} :
               session_log[k].payload.v["sessionId"]
                   \notin C26_IdsOf(c, SubSeq(session_log, 1, k))

\* ------------------------------------------------------------------------
\* Properties of the Langfuse filter (specification SpecFilter)
\* ------------------------------------------------------------------------

\* Call j is an inlet that stored a trace and a generation for a body with
\* a chat id.
C27_Recorded(j) ==
    /\ filter_log[j].op = "inlet"
    /\ "chat_id" \in DOMAIN filter_log[j].body.v
    /\ filter_log[j].generation # PyNone

\* Call k is an outlet whose body carries the chat id of call j's body.
C27_OutletOfSameChat(j, k) ==
    /\ filter_log[k].op = "outlet"
    /\ "chat_id" \in DOMAIN filter_log[k].body.v
    /\ filter_log[k].body.v["chat_id"] = filter_log[j].body.v["chat_id"]

\* Call k is the first outlet of call j's chat after call j.
C27_NextOutlet(j, k) ==
    /\ j < k
    /\ C27_OutletOfSameChat(j, k)
    /\ \A i \in (j + 1)..(k - 1) : ~C27_OutletOfSameChat(j, i)

\* C27: the next outlet of the chat whose inlet recorded a trace and a
\* generation ends that generation and removes the chat's entries, so that
\* once every recording inlet has had the outlet of its chat both dicts
\* are empty.
C27_OutletEndsGenerationOfChat ==
    /\ \A j, k \in DOMAIN filter_log :
           C27_Recorded(j) /\ C27_NextOutlet(j, k)
           => /\ filter_log[k].generation # PyNone
              /\ k = Len(filter_log)
                 => /\ filter_log[j].key \notin DOMAIN chat_traces
                    /\ filter_log[j].key \notin DOMAIN chat_generations
    /\ (/\ \A j \in DOMAIN filter_log :
               filter_log[j].op = "inlet"
               => /\ "chat_id" \in DOMAIN filter_log[j].body.v
                  /\ \E k \in DOMAIN filter_log : C27_NextOutlet(j, k))
       => chat_traces = NoEntries /\ chat_generations = NoEntries

\* C28: chat_traces and chat_generations have the same keys in every state:
\* inlet stores under a key in both or in neither, and outlet removes the
\* key from both.
C28_SameKeys == DOMAIN chat_traces = DOMAIN chat_generations

\* An inlet whose generation could not be created has stored nothing, and an
\* outlet whose trace update raised has removed the entries that an earlier
\* inlet stored.
C28_Witness ==
    /\ \E j \in DOMAIN filter_log :
           /\ filter_log[j].op = "inlet"
           /\ filter_log[j].outcome = "generation raises"
           /\ filter_log[j].key \notin DOMAIN chat_traces
    /\ \E j, k \in DOMAIN filter_log :
           /\ j < k
           /\ k = Len(filter_log)
           /\ filter_log[j].op = "inlet"
           /\ filter_log[j].generation # PyNone
           /\ filter_log[k].op = "outlet"
           /\ filter_log[k].key = filter_log[j].key
           /\ filter_log[k].outcome = "update raises"
           /\ filter_log[k].generation = PyNone
           /\ filter_log[j].key \notin DOMAIN chat_traces
           /\ filter_log[j].key \notin DOMAIN chat_generations

\* A call of inlet or outlet of the kinds the claim names leaves both
\* dicts as they were and ends as the claim says.
C29_StepOfFailure ==
    filter_log' # filter_log
    => LET e == filter_log'[Len(filter_log')]
           complete == {"model", "messages"} \subseteq DOMAIN e.body.v
       IN  /\ e.op = "inlet" /\ ~complete
              => /\ IsRaise(e.result)
                 /\ e.result.v = "ValueError"
                 /\ UNCHANGED <<chat_traces, chat_generations>>
           /\ (/\ e.op = "inlet"
               /\ complete
               /\ langfuse = PyNone \/ e.user = PyNone \/ e.outcome # "ok")
              => /\ e.result = WithoutChatId(e.body)
                 /\ e.generation = PyNone
                 /\ UNCHANGED <<chat_traces, chat_generations>>
           /\ e.op = "outlet" /\ outlet_chat_id(e.body) \notin DOMAIN chat_generations
              => /\ e.result = e.body
                 /\ UNCHANGED <<chat_traces, chat_generations>>

\* C29: inlet raises ValueError for a body without 'model' or 'messages' and
\* stores nothing; a tracing failure inside inlet (an unset client, a user
\* that is None, a Langfuse call that raises) is swallowed, stores nothing
\* and the body is returned; outlet for a key without a generation returns
\* the body; none of these changes chat_traces or chat_generations.
C29_ErrorsLeaveMapsUntouched == [][C29_StepOfFailure]_vars

\* With an entry stored, an inlet has raised ValueError, another has met a
\* failing Langfuse call and returned its body, and the last call is an
\* outlet for a key without a generation; the entry is still there.
C29_Witness ==
    \E i, j, k \in DOMAIN filter_log :
        /\ i < j /\ i < k /\ j # k
        /\ filter_log[i].op = "inlet" /\ filter_log[i].generation # PyNone
        /\ filter_log[j].op = "inlet" /\ IsRaise(filter_log[j].result)
        /\ filter_log[k].op = "inlet" /\ filter_log[k].outcome = "trace raises"
        /\ filter_log[k].result = WithoutChatId(filter_log[k].body)
        /\ filter_log[Len(filter_log)].op = "outlet"
        /\ filter_log[Len(filter_log)].result = filter_log[Len(filter_log)].body
        /\ filter_log[i].key \in DOMAIN chat_traces
        /\ filter_log[i].key \in DOMAIN chat_generations

====
